---- MODULE Spec2Model ----
(***************************************************************************)
(* feelnet: the sentiment classifiers (VADER, TextBlob, Transformer), the  *)
(* two ensemble combiners (SentimentAnalyzer._ensemble_analyze and         *)
(* EnsembleAnalyzer.analyze), analyze_batch and get_statistics.            *)
(*                                                                         *)
(* Python floats are modelled as exact rationals <<n, d>> in lowest terms  *)
(* (d > 0), so "sums to 1" is exact here where the program is exact up to  *)
(* floating-point rounding.                                                *)
(***************************************************************************)
EXTENDS Integers, Sequences, FiniteSets, TLC

(***************************************************************************)
(* Bounds of the model.                                                    *)
(***************************************************************************)
\* longest list handed to analyze_batch
MaxBatch == 2

(***************************************************************************)
(* Rational arithmetic (the program's float arithmetic, made exact).       *)
(***************************************************************************)
RECURSIVE GCD(_, _)
GCD(a, b) == IF b = 0 THEN a ELSE GCD(b, a % b)

Abs(x) == IF x < 0 THEN -x ELSE x

\* n/d in lowest terms; d > 0
Rat(n, d) ==
    IF n = 0 THEN <<0, 1>>
    ELSE LET g == GCD(Abs(n), d) IN <<n \div g, d \div g>>

Zero == Rat(0, 1)
One == Rat(1, 1)
LCM(a, b) == (a \div GCD(a, b)) * b
\* the numerator of a over the denominator d, a multiple of a's own
Over(a, d) == a[1] * (d \div a[2])
RAdd(a, b) == LET d == LCM(a[2], b[2]) IN Rat(Over(a, d) + Over(b, d), d)
RSub(a, b) == LET d == LCM(a[2], b[2]) IN Rat(Over(a, d) - Over(b, d), d)
RMul(a, b) ==
    LET g1 == GCD(Abs(a[1]), b[2])
        g2 == GCD(Abs(b[1]), a[2])
    IN Rat((a[1] \div g1) * (b[1] \div g2), (a[2] \div g2) * (b[2] \div g1))
\* a / b for b > 0
RDiv(a, b) == RMul(a, <<b[2], b[1]>>)
RLt(a, b) == LET d == LCM(a[2], b[2]) IN Over(a, d) < Over(b, d)
RLe(a, b) == LET d == LCM(a[2], b[2]) IN Over(a, d) <= Over(b, d)
RAbs(a) == <<Abs(a[1]), a[2]>>
RMin(a, b) == IF RLe(a, b) THEN a ELSE b
RMax(a, b) == IF RLe(b, a) THEN a ELSE b

(***************************************************************************)
(* Labels and score dictionaries.                                          *)
(***************************************************************************)
\* the key order of every scores dict the program builds
LabelOrder == <<"positive", "negative", "neutral">>
Labels == {"positive", "negative", "neutral"}

Scores(p, n, u) == [positive |-> p, negative |-> n, neutral |-> u]
ZeroScores == Scores(Zero, Zero, Zero)
SumScores(s) == RAdd(RAdd(s.positive, s.negative), s.neutral)

\* PyMaxKey with >= for >: of equal values the last key wins
PyMaxKeyLastWins(s) ==
    LET b1 == "positive"
        b2 == IF RLe(s[b1], s["negative"]) THEN "negative" ELSE b1
        b3 == IF RLe(s[b2], s["neutral"]) THEN "neutral" ELSE b2
    IN b3

\* max(scores, key=scores.get): the first key, in dict order, whose value
\* no later key exceeds strictly
PyMaxKey(s) ==
    LET b1 == "positive"
        b2 == IF RLt(s[b1], s["negative"]) THEN "negative" ELSE b1
        b3 == IF RLt(s[b2], s["neutral"]) THEN "neutral" ELSE b2
    IN b3

(***************************************************************************)
(* Texts.  A text is known to the classifiers only through what the three  *)
(* third-party libraries return for it and through the keyword counts of   *)
(* the fallback classifier; the tables below give these for each text of   *)
(* the model.  PyNone stands for a non-string argument (None).             *)
(***************************************************************************)
PyNone == "<None>"
\* a text of 604 characters: "good", then filler words, then "bad" as its
\* last word, beyond character 512; and its first 512 characters
LongText == "good ...(596 characters)... bad"
LongPrefix == "good ...(508 characters)"
InputTexts == {"", "GOOD", "bad", "good bad", LongText, PyNone}
IsStr(t) == t # PyNone

\* str.lower()
Lower(t) == IF t = "GOOD" THEN "good" ELSE t

\* TextPreprocessor() with its default toggles: markup, URLs and e-mail
\* addresses stripped, case folded, whitespace collapsed (the texts of the
\* model hold no markup, URL, address or repeated whitespace)
Preprocess(t) == IF t = "" \/ ~IsStr(t) THEN "" ELSE Lower(t)

\* which library call raises during one analyze call (injected fault)
Faults == {"none", "vader", "textblob", "pipeline"}

\* SentimentIntensityAnalyzer.polarity_scores(text): pos, neg, neu rounded to
\* three decimals, compound to four; all zero for a text without tokens
VaderLib(t) ==
    CASE t = "" -> [pos |-> Zero, neg |-> Zero, neu |-> Zero, compound |-> Zero]
      [] t \in {"GOOD", "good"} ->
            [pos |-> One, neg |-> Zero, neu |-> Zero, compound |-> Rat(44, 100)]
      [] t = "bad" ->
            [pos |-> Zero, neg |-> One, neu |-> Zero, compound |-> Rat(-54, 100)]
      [] t = "good bad" ->
            [pos |-> Rat(4, 10), neg |-> Rat(4, 10), neu |-> Rat(2, 10),
             compound |-> Zero]
      [] t = LongText ->
            [pos |-> Rat(1, 10), neg |-> Rat(1, 10), neu |-> Rat(8, 10),
             compound |-> Rat(-1, 10)]
      [] t = LongPrefix ->
            [pos |-> Rat(1, 10), neg |-> Zero, neu |-> Rat(9, 10),
             compound |-> Rat(44, 100)]

\* TextBlob(text).sentiment.polarity, in [-1, 1]
BlobLib(t) ==
    CASE t = "" -> Zero
      [] t \in {"GOOD", "good"} -> Rat(7, 10)
      [] t = "bad" -> Rat(-7, 10)
      [] t = "good bad" -> Zero
      [] t = LongText -> Rat(-1, 20)
      [] t = LongPrefix -> Rat(1, 5)

\* pipeline(text)[0] of the SST-2 model with return_all_scores: one entry per
\* class, the two scores a softmax
PipelineLib(t) ==
    LET p == CASE t = "" -> Rat(3, 4)
               [] t \in {"GOOD", "good"} -> Rat(9, 10)
               [] t = "bad" -> Rat(1, 10)
               [] t = "good bad" -> Rat(1, 2)
               [] t = LongText -> Rat(2, 5)
               [] t = LongPrefix -> Rat(4, 5)
    IN <<[label |-> "NEGATIVE", score |-> RSub(One, p)],
         [label |-> "POSITIVE", score |-> p]>>

\* hits of the two keyword lists in text.lower(), and len(text.split())
KeywordCounts(t) ==
    CASE t = "" -> [pos |-> 0, neg |-> 0, words |-> 0]
      [] t \in {"GOOD", "good"} -> [pos |-> 1, neg |-> 0, words |-> 1]
      [] t = "bad" -> [pos |-> 0, neg |-> 1, words |-> 1]
      [] t = "good bad" -> [pos |-> 1, neg |-> 1, words |-> 2]
      [] t = LongText -> [pos |-> 1, neg |-> 1, words |-> 100]
      [] t = LongPrefix -> [pos |-> 1, neg |-> 0, words |-> 85]

\* len(text)
TextLen(t) ==
    CASE t = "" -> 0
      [] t \in {"GOOD", "good"} -> 4
      [] t = "bad" -> 3
      [] t = "good bad" -> 8
      [] t = LongText -> 604
      [] t = LongPrefix -> 512

\* text[:512] of a text longer than 512 characters
Prefix512(t) == IF t = LongText THEN LongPrefix ELSE t

(***************************************************************************)
(* Outcome of a call: it returns a value or raises.                        *)
(***************************************************************************)
Returned(v) == [raised |-> FALSE, value |-> v]
Raised(e) == [raised |-> TRUE, error |-> e]

(***************************************************************************)
(* VaderAnalyzer.analyze                                                   *)
(***************************************************************************)
\* VaderResult with strict comparisons at the two thresholds
VaderResultStrict(scores) ==
    LET compound == scores.compound
        sentiment == IF RLt(Rat(5, 100), compound) THEN "positive"
                     ELSE IF RLt(compound, Rat(-5, 100)) THEN "negative"
                     ELSE "neutral"
        confidence == IF sentiment = "positive" THEN scores.pos
                      ELSE IF sentiment = "negative" THEN scores.neg
                      ELSE scores.neu
    IN Returned([sentiment |-> sentiment,
                 confidence |-> confidence,
                 scores |-> Scores(scores.pos, scores.neg, scores.neu)])

\* what analyze makes of scores, the dict polarity_scores returned
VaderResult(scores) ==
    LET compound == scores.compound
        sentiment == IF RLe(Rat(5, 100), compound) THEN "positive"
                     ELSE IF RLe(compound, Rat(-5, 100)) THEN "negative"
                     ELSE "neutral"
        confidence == IF sentiment = "positive" THEN scores.pos
                      ELSE IF sentiment = "negative" THEN scores.neg
                      ELSE scores.neu
    IN Returned([sentiment |-> sentiment,
                 confidence |-> confidence,
                 scores |-> Scores(scores.pos, scores.neg, scores.neu)])

VaderAnalyze(t, fault) ==
    IF ~IsStr(t) \/ fault = "vader" THEN Raised("TypeError")
    ELSE VaderResult(VaderLib(t))

(***************************************************************************)
(* TextBlobAnalyzer.analyze                                                *)
(***************************************************************************)
\* what analyze makes of polarity, blob.sentiment.polarity
TextBlobResult(polarity) ==
    LET sentiment == IF RLt(Rat(1, 10), polarity) THEN "positive"
                     ELSE IF RLt(polarity, Rat(-1, 10)) THEN "negative"
                     ELSE "neutral"
        confidence == IF sentiment = "positive" THEN polarity
                      ELSE IF sentiment = "negative" THEN RAbs(polarity)
                      ELSE RSub(One, RAbs(polarity))
        normalized_polarity == RDiv(RAdd(polarity, One), Rat(2, 1))
        isZero == polarity = Zero
        pos_score == IF isZero THEN Rat(33, 100) ELSE normalized_polarity
        neg_score == IF isZero THEN Rat(33, 100)
                     ELSE RSub(One, normalized_polarity)
        neu_score == IF isZero THEN Rat(34, 100)
                     ELSE RMul(RSub(One, RAbs(polarity)), Rat(1, 2))
        total == RAdd(RAdd(pos_score, neg_score), neu_score)
        norm(x) == IF RLt(Zero, total) THEN RDiv(x, total) ELSE x
    IN Returned([sentiment |-> sentiment,
                 confidence |-> confidence,
                 scores |-> Scores(norm(pos_score), norm(neg_score),
                                   norm(neu_score))])

TextBlobAnalyze(t, fault) ==
    IF ~IsStr(t) \/ fault = "textblob" THEN Raised("TypeError")
    ELSE TextBlobResult(BlobLib(t))

(***************************************************************************)
(* TransformerAnalyzer                                                     *)
(***************************************************************************)
\* max_length of TransformerAnalyzer.analyze
MaxLength == 512

\* Truncate that hands every text on whole
TruncateNever(t) == t

\* text[:max_length]
Truncate(t) == IF TextLen(t) > MaxLength THEN Prefix512(t) ELSE t

\* result['label'].lower()
LabelLower(l) ==
    CASE l = "POSITIVE" -> "positive"
      [] l = "NEGATIVE" -> "negative"
      [] l = "NEUTRAL" -> "neutral"
      [] l = "LABEL_0" -> "label_0"
      [] l = "LABEL_1" -> "label_1"
      [] l = "LABEL_2" -> "label_2"
      [] OTHER -> l

\* the branch of _parse_results a lower-cased label takes: the key it sets,
\* or "" when no branch matches
ParseLabel(label) ==
    IF label = "positive" \/ label = "label_2" THEN "positive"
    ELSE IF label = "negative" \/ label = "label_0" THEN "negative"
    ELSE IF label = "neutral" \/ label = "label_1" THEN "neutral"
    ELSE ""

RECURSIVE ParseLoop(_, _, _)
ParseLoop(results, i, acc) ==
    IF i > Len(results) THEN acc
    ELSE LET key == ParseLabel(LabelLower(results[i].label))
         IN ParseLoop(results, i + 1,
                      IF key = "" THEN acc
                      ELSE [acc EXCEPT ![key] = results[i].score])

\* TransformerAnalyzer._parse_results
ParseResults(results) ==
    LET sentiment_scores == ParseLoop(results, 1, ZeroScores)
        total == RAdd(sentiment_scores.positive, sentiment_scores.negative)
        keep == Rat(9, 10)
    IN IF sentiment_scores.neutral = Zero /\ RLt(Zero, total)
       THEN Scores(RMul(sentiment_scores.positive, keep),
                   RMul(sentiment_scores.negative, keep),
                   Rat(1, 10))
       ELSE sentiment_scores

\* _fallback_analysis from the counts on: c.pos and c.neg are the hits of
\* the two keyword lists, c.words is len(text.split())
FallbackResult(c) ==
    LET density(hits) == RMin(Rat(8, 10),
                              RDiv(Rat(hits, 1), RMax(Rat(c.words, 10), One)))
        sentiment == IF c.pos > c.neg THEN "positive"
                     ELSE IF c.neg > c.pos THEN "negative"
                     ELSE "neutral"
        confidence == IF sentiment = "positive" THEN density(c.pos)
                      ELSE IF sentiment = "negative" THEN density(c.neg)
                      ELSE Rat(6, 10)
        rest == RSub(One, confidence)
        scores == IF sentiment = "positive"
                  THEN Scores(confidence, RMul(rest, Rat(3, 10)),
                              RMul(rest, Rat(7, 10)))
                  ELSE IF sentiment = "negative"
                  THEN Scores(RMul(rest, Rat(3, 10)), confidence,
                              RMul(rest, Rat(7, 10)))
                  ELSE Scores(Rat(3, 10), Rat(3, 10), Rat(4, 10))
    IN Returned([sentiment |-> sentiment,
                 confidence |-> confidence,
                 scores |-> scores,
                 fallback |-> TRUE])

\* TransformerAnalyzer._fallback_analysis
FallbackAnalysis(t) ==
    IF ~IsStr(t) THEN Raised("AttributeError")
    ELSE FallbackResult(KeywordCounts(t))

\* the dict TransformerAnalyzer.analyze returns for the parsed scores
TransformerResult(sentiment_scores, primary_sentiment) ==
    Returned([sentiment |-> primary_sentiment,
              confidence |-> sentiment_scores[primary_sentiment],
              scores |-> sentiment_scores,
              fallback |-> FALSE])

\* primary_sentiment = max(sentiment_scores, key=sentiment_scores.get)
TransformerPrimary(sentiment_scores) ==
    TransformerResult(sentiment_scores, PyMaxKey(sentiment_scores))

\* the try block of analyze on the truncated text, and its except branch
TransformerTry(text, fault) ==
    IF fault = "pipeline" THEN FallbackAnalysis(text)
    ELSE TransformerPrimary(ParseResults(PipelineLib(text)))

\* TransformerAnalyze without the except branch: an inference error leaves
\* the call
TransformerAnalyzeReraises(t, handle, fault) ==
    IF handle = "none" THEN FallbackAnalysis(t)
    ELSE IF ~IsStr(t) \/ fault = "pipeline" THEN Raised("RuntimeError")
    ELSE TransformerPrimary(ParseResults(PipelineLib(Truncate(t))))

\* TransformerAnalyzer.analyze; handle is self.pipeline ("none" when no model
\* was loaded)
TransformerAnalyze(t, handle, fault) ==
    IF handle = "none" THEN FallbackAnalysis(t)
    ELSE IF ~IsStr(t) THEN FallbackAnalysis(t)
    ELSE TransformerTry(Truncate(t), fault)

(***************************************************************************)
(* The ensemble combiners.                                                 *)
(***************************************************************************)
AdapterOrder == <<"vader", "textblob", "transformer">>

\* analyzer.analyze(text) of the adapter called name
AdapterAnalyze(name, t, handle, fault) ==
    CASE name = "vader" -> VaderAnalyze(t, fault)
      [] name = "textblob" -> TextBlobAnalyze(t, fault)
      [] name = "transformer" -> TransformerAnalyze(t, handle, fault)

\* SentimentAnalyzer._get_analyzer_weight
GetAnalyzerWeight(name) ==
    CASE name = "vader" -> Rat(4, 10)
      [] name = "textblob" -> Rat(3, 10)
      [] name = "transformer" -> Rat(3, 10)
      [] OTHER -> Rat(33, 100)

\* scores[sentiment] += score * weight, for the three keys of one result
Accumulate(scores, result, weight) ==
    [l \in Labels |-> RAdd(scores[l], RMul(result.scores[l], weight))]

\* the loop over self.analyzers.items(): names is the dict's key order,
\* individual[name] the outcome of that adapter's analyze; an adapter that
\* raised is skipped
RECURSIVE CombineLoop(_, _, _, _, _)
CombineLoop(names, i, individual, weightOf, scores) ==
    IF i > Len(names) THEN scores
    ELSE LET name == names[i]
         IN CombineLoop(names, i + 1, individual, weightOf,
                        IF individual[name].raised THEN scores
                        ELSE Accumulate(scores, individual[name].value,
                                        weightOf[name]))

\* total = sum(scores.values()); if total > 0: scores = {k: v / total}
NormalizeScores(scores) ==
    LET total == SumScores(scores)
    IN IF RLt(Zero, total) THEN [l \in Labels |-> RDiv(scores[l], total)]
       ELSE scores

\* the result dict of the combiners: final sentiment, its score, the scores
Final(scores, sentiment_label) ==
    [sentiment |-> sentiment_label,
     confidence |-> scores[sentiment_label],
     scores |-> scores]

\* final_sentiment = max(scores, key=scores.get)
WithMax(scores) == Final(scores, PyMaxKey(scores))

\* the part the two combiners share: loop, normalisation, final sentiment
Combine(names, individual, weightOf) ==
    WithMax(NormalizeScores(
                CombineLoop(names, 1, individual, weightOf, ZeroScores)))

\* the outcomes of the adapters named in names, each called once with text t
Individual(names, t, handle, fault) ==
    [name \in {names[i] : i \in 1..Len(names)} |->
        AdapterAnalyze(name, t, handle, fault)]

\* SentimentAnalyzer._ensemble_analyze
SAEnsembleAnalyze(t, handle, fault) ==
    Combine(AdapterOrder, Individual(AdapterOrder, t, handle, fault),
            [name \in {"vader", "textblob", "transformer"} |->
                GetAnalyzerWeight(name)])

\* EnsembleAnalyzer.analyze on an object o = [analyzers, weights]
EAAnalyze(o, t, handle, fault) ==
    IF Len(o.analyzers) = 0 THEN Raised("ValueError: No analyzers configured")
    ELSE Returned(Combine(o.analyzers,
                          Individual(o.analyzers, t, handle, fault),
                          o.weights))

(***************************************************************************)
(* SentimentAnalyzer.analyze, analyze_batch, get_statistics                *)
(***************************************************************************)
Methods == {"vader", "textblob", "transformer", "ensemble"}

SentimentResult(text, sentiment, confidence, scores, method, processing_time) ==
    [text |-> text, sentiment |-> sentiment, confidence |-> confidence,
     scores |-> scores, method |-> method,
     processing_time |-> processing_time]

\* SADispatch with every unknown method name taken for "ensemble"
SADispatchDefaultsToEnsemble(o, handle, processed_text, fault) ==
    IF o.method \notin {"vader", "textblob", "transformer"}
    THEN Returned(SAEnsembleAnalyze(processed_text, handle, fault))
    ELSE AdapterAnalyze(o.method, processed_text, handle, fault)

\* the dispatch of analyze on self.method, on the text handed to the adapters
SADispatch(o, handle, processed_text, fault) ==
    IF o.method = "ensemble"
    THEN Returned(SAEnsembleAnalyze(processed_text, handle, fault))
    ELSE IF o.method \notin {"vader", "textblob", "transformer"}
    THEN Raised("ValueError: Unknown analysis method")
    ELSE AdapterAnalyze(o.method, processed_text, handle, fault)

\* the SentimentResult analyze builds from the dict result of the dispatch;
\* an exception of the dispatch leaves analyze
SAResult(o, text, result, elapsed) ==
    IF result.raised THEN result
    ELSE Returned(SentimentResult(text, result.value.sentiment,
                                  result.value.confidence,
                                  result.value.scores, o.method,
                                  Rat(elapsed, 1)))

\* SentimentAnalyzer.analyze on an object o = [method, preprocess]; elapsed is
\* time.time() - start_time
SAAnalyze(o, handle, text, fault, elapsed) ==
    SAResult(o, text,
             SADispatch(o, handle,
                        IF o.preprocess THEN Preprocess(text) ELSE text, fault),
             elapsed)

\* the error result analyze_batch appends when analyze raised
ErrorResult(o, text) ==
    SentimentResult(text, "neutral", Zero, Scores(Zero, Zero, One), o.method,
                    Zero)

\* BatchAppend with an except branch that appends nothing
BatchAppendSkipsFailed(o, results, text, r) ==
    IF r.raised THEN results ELSE Append(results, r.value)

\* results.append(result) of the try branch, results.append(error_result) of
\* the except branch; r is the outcome of self.analyze(text)
BatchAppend(o, results, text, r) ==
    Append(results, IF r.raised THEN ErrorResult(o, text) ELSE r.value)

\* the loop of analyze_batch over inputs[i..]; an input is the text and what
\* the environment does during its analyze call
RECURSIVE BatchLoop(_, _, _, _, _)
BatchLoop(o, handle, inputs, i, results) ==
    IF i > Len(inputs) THEN results
    ELSE BatchLoop(o, handle, inputs, i + 1,
                   BatchAppend(o, results, inputs[i].text,
                               SAAnalyze(o, handle, inputs[i].text,
                                         inputs[i].fault, inputs[i].elapsed)))

\* SentimentAnalyzer.analyze_batch
SAAnalyzeBatch(o, handle, inputs) == BatchLoop(o, handle, inputs, 1, <<>>)

RECURSIVE SumOver(_, _)
\* sum(f(r) for r in results), f given as the sequence of its values
SumOver(values, i) ==
    IF i > Len(values) THEN Zero ELSE RAdd(values[i], SumOver(values, i + 1))

\* sentiments.count(label)
CountLabel(results, label) ==
    Cardinality({i \in 1..Len(results) : results[i].sentiment = label})

\* GetStatistics with the fractions computed by integer division
GetStatisticsFloorDiv(results) ==
    IF Len(results) = 0 THEN [empty |-> TRUE]
    ELSE LET n == Len(results)
             confidences == [i \in 1..n |-> results[i].confidence]
             processing_times == [i \in 1..n |-> results[i].processing_time]
         IN [empty |-> FALSE,
             total_analyzed |-> n,
             sentiment_distribution |->
                 [l \in Labels |-> Rat(CountLabel(results, l) \div n, 1)],
             average_confidence |->
                 RDiv(SumOver(confidences, 1), Rat(n, 1)),
             total_processing_time |-> SumOver(processing_times, 1),
             average_processing_time |->
                 RDiv(SumOver(processing_times, 1), Rat(n, 1))]

\* GetStatistics over the results that are no error placeholders
GetStatisticsOverAnalysed(results) ==
    LET kept == SelectSeq(results, LAMBDA r : r.processing_time # Zero)
    IN IF Len(results) = 0 THEN [empty |-> TRUE]
       ELSE IF Len(kept) = 0
       THEN [empty |-> FALSE,
             total_analyzed |-> 0,
             sentiment_distribution |-> [l \in Labels |-> Zero],
             average_confidence |-> Zero,
             total_processing_time |-> Zero,
             average_processing_time |-> Zero]
       ELSE LET n == Len(kept)
                confidences == [i \in 1..n |-> kept[i].confidence]
                processing_times == [i \in 1..n |-> kept[i].processing_time]
            IN [empty |-> FALSE,
                total_analyzed |-> n,
                sentiment_distribution |->
                    [l \in Labels |-> Rat(CountLabel(kept, l), n)],
                average_confidence |->
                    RDiv(SumOver(confidences, 1), Rat(n, 1)),
                total_processing_time |-> SumOver(processing_times, 1),
                average_processing_time |->
                    RDiv(SumOver(processing_times, 1), Rat(n, 1))]

\* SentimentAnalyzer.get_statistics; [empty |-> TRUE] is the {} it returns
\* for no results
GetStatistics(results) ==
    IF Len(results) = 0 THEN [empty |-> TRUE]
    ELSE LET n == Len(results)
             confidences == [i \in 1..n |-> results[i].confidence]
             processing_times == [i \in 1..n |-> results[i].processing_time]
         IN [empty |-> FALSE,
             total_analyzed |-> n,
             sentiment_distribution |->
                 [l \in Labels |-> Rat(CountLabel(results, l), n)],
             average_confidence |->
                 RDiv(SumOver(confidences, 1), Rat(n, 1)),
             total_processing_time |-> SumOver(processing_times, 1),
             average_processing_time |->
                 RDiv(SumOver(processing_times, 1), Rat(n, 1))]

(***************************************************************************)
(* Construction.                                                           *)
(***************************************************************************)
\* what happens in TransformerAnalyzer._initialize_model: the import of the
\* transformers package fails, the first pipeline(...) call succeeds, only
\* the second succeeds, or both raise
LoadOutcomes == {"import_fails", "primary_ok", "fallback_ok", "both_fail"}

\* self.pipeline after _initialize_model
InitializeModel(load) ==
    CASE load = "primary_ok" -> "primary"
      [] load = "fallback_ok" -> "fallback"
      [] OTHER -> "none"

\* the pipeline(...) calls _initialize_model makes
LoadAttempts(load) ==
    CASE load = "import_fails" -> 0
      [] load = "primary_ok" -> 1
      [] OTHER -> 2

\* method names handed to SentimentAnalyzer(method=...)
MethodArgs == Methods \cup {"bogus"}

\* weights handed to EnsembleAnalyzer(...), in tenths
WeightArgs == {0, 3, 4}

\* the keys of EnsembleAnalyzer.analyzers in insertion order
EnabledOrder(use) == SelectSeq(AdapterOrder, LAMBDA name : use[name])

\* EAWeights with a uniform share for every enabled adapter
EAWeightsUniform(use, w) ==
    [name \in {name \in DOMAIN use : use[name]} |->
        Rat(1, Cardinality({name2 \in DOMAIN use : use[name2]}))]

\* EnsembleAnalyzer.__init__: self.weights
EAWeights(use, w) ==
    LET names == {name \in DOMAIN use : use[name]}
        order == EnabledOrder(use)
        raw == [name \in names |-> Rat(w[name], 10)]
        total_weight == SumOver([i \in 1..Len(order) |-> raw[order[i]]], 1)
    IN IF RLt(Zero, total_weight)
       THEN [name \in names |-> RDiv(raw[name], total_weight)]
       ELSE raw

(***************************************************************************)
(* The state machine: one object is constructed, then called.              *)
(***************************************************************************)
VARIABLES
    obj,        \* the object: its class and the fields __init__ set
    pipeline,   \* self.pipeline of the object's TransformerAnalyzer
    loads,      \* pipeline(...) model loads attempted so far
    call,       \* the latest call on the object: arguments and outcome
    env         \* outside the process: the clock time.time() reads, the
                \* times of the latest GETs sent, the rows of the database

vars == <<obj, pipeline, loads, call, env>>

NoCall == [op |-> "none"]

\* what time.time() reads when the process starts
Epoch == 13

Init ==
    /\ obj = [cls |-> "none"]
    /\ pipeline = "unset"
    /\ loads = 0
    /\ call = NoCall
    /\ env = [now |-> Epoch, sent |-> <<>>, rows |-> 0]

\* SentimentAnalyzer(method, preprocess)
NewSentimentAnalyzer ==
    /\ obj.cls = "none"
    /\ \E method \in MethodArgs, preprocess \in BOOLEAN, load \in LoadOutcomes :
          /\ obj' = [cls |-> "SentimentAnalyzer", method |-> method,
                     preprocess |-> preprocess]
          /\ pipeline' = InitializeModel(load)
          /\ loads' = LoadAttempts(load)
    /\ UNCHANGED <<call, env>>

\* EnsembleAnalyzer(use_vader, use_textblob, use_transformer, weights)
NewEnsembleAnalyzer ==
    /\ obj.cls = "none"
    /\ \E use \in [{"vader", "textblob", "transformer"} -> BOOLEAN],
          w \in [{"vader", "textblob", "transformer"} -> WeightArgs],
          load \in LoadOutcomes :
          /\ obj' = [cls |-> "EnsembleAnalyzer",
                     analyzers |-> EnabledOrder(use),
                     weights |-> EAWeights(use, w)]
          /\ pipeline' = IF use["transformer"] THEN InitializeModel(load)
                         ELSE "unset"
          /\ loads' = IF use["transformer"] THEN LoadAttempts(load) ELSE 0
    /\ UNCHANGED <<call, env>>

\* processing times (clock ticks) a successful analyze call can report
Elapsed == {1, 2}

\* the adapters one analyze call of the SentimentAnalyzer o runs, in order
SACalled(o) ==
    IF o.method = "ensemble" THEN AdapterOrder
    ELSE IF o.method \in {"vader", "textblob", "transformer"} THEN <<o.method>>
    ELSE <<>>

\* one entry of the record of what an analyze call did, in order
Event(name, t, raised) == [event |-> name, text |-> t, raised |-> raised]

RECURSIVE CallLoopStopsAtFailure(_, _, _, _, _, _)
\* CallLoop that ends at the first adapter that raises
CallLoopStopsAtFailure(names, i, t, handle, fault, trace) ==
    IF i > Len(names) THEN trace
    ELSE IF AdapterAnalyze(names[i], t, handle, fault).raised
    THEN Append(trace, Event(names[i], t, TRUE))
    ELSE CallLoopStopsAtFailure(names, i + 1, t, handle, fault,
                                Append(trace, Event(names[i], t, FALSE)))

RECURSIVE CallLoop(_, _, _, _, _, _)
\* "for name, analyzer in self.analyzers.items()" from names[i] on: each
\* adapter is called with the text, whether or not an earlier one raised
CallLoop(names, i, t, handle, fault, trace) ==
    IF i > Len(names) THEN trace
    ELSE CallLoop(names, i + 1, t, handle, fault,
                  Append(trace,
                         Event(names[i], t,
                               AdapterAnalyze(names[i], t, handle,
                                              fault).raised)))

\* what analyze of the SentimentAnalyzer o does, in order: the
\* normalisation when enabled, then the adapter calls on its outcome
SATrace(o, text, processed, handle, fault) ==
    CallLoop(SACalled(o), 1, processed, handle, fault,
             IF o.preprocess THEN <<Event("preprocess", text, FALSE)>>
             ELSE <<>>)

\* Analyze with a lazy reload: a call that finds no model loads one
AnalyzeReloads ==
    /\ obj.cls = "SentimentAnalyzer"
    /\ call = NoCall
    /\ pipeline' = IF pipeline = "none" THEN "primary" ELSE pipeline
    /\ loads' = IF pipeline = "none" THEN loads + 1 ELSE loads
    /\ \E text \in InputTexts, fault \in Faults, elapsed \in Elapsed :
          LET processed == IF obj.preprocess THEN Preprocess(text) ELSE text
          IN call' = [op |-> "analyze", text |-> text, handed |-> processed,
                      fault |-> fault,
                      individual |->
                          Individual(SACalled(obj), processed, pipeline', fault),
                      trace |-> SATrace(obj, text, processed, pipeline', fault),
                      out |-> SAAnalyze(obj, pipeline', text, fault, elapsed)]
    /\ UNCHANGED <<obj, env>>

\* analyzer.analyze(text) on the SentimentAnalyzer
Analyze ==
    /\ obj.cls = "SentimentAnalyzer"
    /\ call = NoCall
    /\ \E text \in InputTexts, fault \in Faults, elapsed \in Elapsed :
          LET processed == IF obj.preprocess THEN Preprocess(text) ELSE text
          IN call' = [op |-> "analyze", text |-> text, handed |-> processed,
                      fault |-> fault,
                      individual |->
                          Individual(SACalled(obj), processed, pipeline, fault),
                      trace |-> SATrace(obj, text, processed, pipeline, fault),
                      out |-> SAAnalyze(obj, pipeline, text, fault, elapsed)]
    /\ UNCHANGED <<obj, pipeline, loads, env>>

\* ensemble.analyze(text) on the EnsembleAnalyzer
EnsembleAnalyze ==
    /\ obj.cls = "EnsembleAnalyzer"
    /\ call = NoCall
    /\ \E text \in InputTexts, fault \in Faults :
          call' = [op |-> "analyze", text |-> text, handed |-> text,
                   fault |-> fault,
                   individual |->
                       Individual(obj.analyzers, text, pipeline, fault),
                   out |-> EAAnalyze(obj, text, pipeline, fault)]
    /\ UNCHANGED <<obj, pipeline, loads, env>>

\* what a batch item is: a text and what the environment does during its
\* analyze call
BatchItems ==
    [text : InputTexts, fault : {"none"}, elapsed : {1}]
    \cup [text : {"GOOD"}, fault : Faults \ {"none"}, elapsed : {2}]

BatchArgs == UNION {[1..n -> BatchItems] : n \in 0..MaxBatch}

\* did analyze raise on inputs[i]
Failed(o, handle, inputs) ==
    [i \in 1..Len(inputs) |->
        SAAnalyze(o, handle, inputs[i].text, inputs[i].fault,
                  inputs[i].elapsed).raised]

\* AnalyzeBatch on an analyzer that keeps the results of its latest batch
AnalyzeBatchKeepsResults ==
    /\ obj.cls = "SentimentAnalyzer"
    /\ call = NoCall
    /\ \E inputs \in BatchArgs :
          /\ call' = [op |-> "analyze_batch",
                      inputs |-> inputs,
                      failed |-> Failed(obj, pipeline, inputs),
                      out |-> Returned(SAAnalyzeBatch(obj, pipeline, inputs))]
          /\ obj' = [cls |-> obj.cls, method |-> obj.method,
                     preprocess |-> obj.preprocess,
                     history |-> SAAnalyzeBatch(obj, pipeline, inputs)]
    /\ UNCHANGED <<pipeline, loads, env>>

\* analyzer.analyze_batch(texts)
AnalyzeBatch ==
    /\ obj.cls = "SentimentAnalyzer"
    /\ call = NoCall
    /\ \E inputs \in BatchArgs :
          call' = [op |-> "analyze_batch",
                   inputs |-> inputs,
                   failed |-> Failed(obj, pipeline, inputs),
                   out |-> Returned(SAAnalyzeBatch(obj, pipeline, inputs))]
    /\ UNCHANGED <<obj, pipeline, loads, env>>

\* analyzer.get_statistics(results) on what the latest call returned: the
\* list of a batch, the one result of an analyze, or no result at all
StatisticsArg ==
    IF call.op = "analyze_batch" THEN call.out.value
    ELSE IF call.op = "analyze" /\ ~call.out.raised THEN <<call.out.value>>
    ELSE <<>>

Statistics ==
    /\ obj.cls = "SentimentAnalyzer"
    /\ call.op # "get_statistics"
    /\ call' = [op |-> "get_statistics",
                results |-> StatisticsArg,
                failed |-> IF call.op = "analyze_batch" THEN call.failed
                           ELSE [i \in 1..Len(StatisticsArg) |-> FALSE],
                out |-> Returned(GetStatistics(StatisticsArg))]
    /\ UNCHANGED <<obj, pipeline, loads, env>>

\* the caller drops what the latest call returned; the object keeps nothing
\* of it
Discard ==
    /\ call # NoCall
    /\ call' = NoCall
    /\ UNCHANGED <<obj, pipeline, loads, env>>

Next ==
    \/ NewSentimentAnalyzer
    \/ NewEnsembleAnalyzer
    \/ Analyze
    \/ EnsembleAnalyze
    \/ AnalyzeBatch
    \/ Statistics
    \/ Discard

Spec == Init /\ [][Next]_vars

(***************************************************************************)
(* Texts of the TextPreprocessor: a Python value is its type, and for a    *)
(* str its characters.                                                     *)
(***************************************************************************)
Str(chars) == [type |-> "str", chars |-> chars, truthy |-> Len(chars) > 0]
\* for a value that is no str, chars holds the characters of str(value)
PyNoneValue ==
    [type |-> "NoneType", chars |-> <<"N", "o", "n", "e">>, truthy |-> FALSE]
\* the ints 0 and 5
PyInt(nonzero) ==
    [type |-> "int", chars |-> IF nonzero THEN <<"5">> ELSE <<"0">>,
     truthy |-> nonzero]

UpperLetters ==
    <<"A", "B", "C", "D", "E", "F", "G", "H", "I", "J", "K", "L", "M",
      "N", "O", "P", "Q", "R", "S", "T", "U", "V", "W", "X", "Y", "Z">>
LowerLetters ==
    <<"a", "b", "c", "d", "e", "f", "g", "h", "i", "j", "k", "l", "m",
      "n", "o", "p", "q", "r", "s", "t", "u", "v", "w", "x", "y", "z">>
Range(s) == {s[i] : i \in DOMAIN s}
Letters == Range(UpperLetters) \cup Range(LowerLetters)
Digits == {"0", "1", "2", "3", "4", "5", "6", "7", "8", "9"}
\* \s, over the characters of the inputs
Whitespace == {" ", "\t", "\n"}
\* \w
WordChars == Letters \cup Digits \cup {"_"}

\* str.lower() of one character
LowerChar(c) ==
    IF c \in Range(UpperLetters)
    THEN LowerLetters[CHOOSE i \in DOMAIN UpperLetters : UpperLetters[i] = c]
    ELSE c

\* the least, the greatest element of a set of positions; 0 for none
MinOrZero(J) == IF J = {} THEN 0 ELSE CHOOSE j \in J : \A k \in J : j <= k
MaxOrZero(J) == IF J = {} THEN 0 ELSE CHOOSE j \in J : \A k \in J : k <= j

\* the last position of the longest run of characters of S that starts at
\* position i of t; i - 1 when t[i] is not in S
StopBefore(j, n) == IF j = 0 THEN n ELSE j - 1
RunEnd(t, i, S) ==
    StopBefore(MinOrZero({j \in i..Len(t) : t[j] \notin S}), Len(t))

\* t[i:].startswith(p)
StartsWith(t, i, p) ==
    /\ i + Len(p) - 1 <= Len(t)
    /\ \A k \in 1..Len(p) : t[i + k - 1] = p[k]

\* \b between positions k and k + 1 of t
IsWordAt(t, k) == k >= 1 /\ k <= Len(t) /\ t[k] \in WordChars
Boundary(t, k) == IsWordAt(t, k) # IsWordAt(t, k + 1)

(***************************************************************************)
(* The regular expressions of the TextPreprocessor.  Each ...End(t, i) is  *)
(* the last position of the match that re finds starting at position i,    *)
(* greedy quantifiers and backtracking included, or 0 when none starts     *)
(* there.                                                                  *)
(***************************************************************************)
\* <[^>]+>
TagClose(i, j) == IF j >= i + 2 THEN j ELSE 0
HtmlEnd(t, i) ==
    IF t[i] = "<"
    THEN TagClose(i, MinOrZero({j \in (i + 1)..Len(t) : t[j] = ">"}))
    ELSE 0

\* the characters of (?:[a-zA-Z]|[0-9]|[$-_@.&+]|[!*\\(\\),]|(?:%[0-9a-fA-F]
\* [0-9a-fA-F])): [$-_] is the range of codes 36..95
UrlChars ==
    Letters \cup Digits \cup
    {"$", "%", "&", "'", "(", ")", "*", "+", ",", "-", ".", "/", ":", ";",
     "<", "=", ">", "?", "@", "[", "\\", "]", "^", "_", "!"}

\* the rest of the URL, which starts at position k, has a character at least
UrlRest(k, e) == IF e >= k THEN e ELSE 0
\* http[s]?://(?:...)+
UrlEnd(t, i) ==
    IF StartsWith(t, i, <<"h", "t", "t", "p", "s", ":", "/", "/">>)
       /\ i + 8 <= Len(t) /\ t[i + 8] \in UrlChars
    THEN UrlRest(i + 8, RunEnd(t, i + 8, UrlChars))
    ELSE IF StartsWith(t, i, <<"h", "t", "t", "p", ":", "/", "/">>)
    THEN UrlRest(i + 7, RunEnd(t, i + 7, UrlChars))
    ELSE 0

\* [A-Za-z0-9._%+-], [A-Za-z0-9.-], [A-Z|a-z]
LocalChars == Letters \cup Digits \cup {".", "_", "%", "+", "-"}
DomainChars == Letters \cup Digits \cup {".", "-"}
TldChars == Letters \cup {"|"}

\* \.[A-Z|a-z]{2,}\b with the dot at position p: the longest ending first
TldEnd(t, p) ==
    MaxOrZero({e \in (p + 2)..RunEnd(t, p + 1, TldChars) : Boundary(t, e)})

\* [A-Za-z0-9.-]+\.[A-Z|a-z]{2,}\b from position d: the longest domain first
DotAt(t, p) == IF p = 0 THEN 0 ELSE TldEnd(t, p)
DomainEnd(t, d) ==
    DotAt(t, MaxOrZero({p \in (d + 1)..RunEnd(t, d, DomainChars) :
                           t[p] = "." /\ TldEnd(t, p) > 0}))

\* the local part ends at position a; "@" and the domain follow
AfterLocal(t, a) ==
    IF a + 2 <= Len(t) /\ t[a + 1] = "@" THEN DomainEnd(t, a + 2) ELSE 0

\* \b[A-Za-z0-9._%+-]+@[A-Za-z0-9.-]+\.[A-Z|a-z]{2,}\b
EmailEnd(t, i) ==
    IF t[i] \in LocalChars /\ Boundary(t, i - 1)
    THEN AfterLocal(t, RunEnd(t, i, LocalChars))
    ELSE 0

\* \s+ and [ \t]+
SpaceEnd(t, i) == IF t[i] \in Whitespace THEN RunEnd(t, i, Whitespace) ELSE 0
BlankEnd(t, i) == IF t[i] \in {" ", "\t"} THEN RunEnd(t, i, {" ", "\t"}) ELSE 0

\* \n\s*\n
ParaEnd(t, i) ==
    IF t[i] = "\n"
    THEN MaxOrZero({j \in (i + 1)..RunEnd(t, i + 1, Whitespace) :
                       t[j] = "\n"})
    ELSE 0

MatchEnd(pattern, t, i) ==
    CASE pattern = "html" -> HtmlEnd(t, i)
      [] pattern = "url" -> UrlEnd(t, i)
      [] pattern = "email" -> EmailEnd(t, i)
      [] pattern = "space" -> SpaceEnd(t, i)
      [] pattern = "blank" -> BlankEnd(t, i)
      [] pattern = "para" -> ParaEnd(t, i)

\* pattern.sub(repl, t): the matches are found left to right and do not
\* overlap
RECURSIVE Sub(_, _, _, _, _)
SubStep(pattern, repl, t, i, acc, e) ==
    IF e > 0 THEN Sub(pattern, repl, t, e + 1, acc \o repl)
    ELSE Sub(pattern, repl, t, i + 1, Append(acc, t[i]))
Sub(pattern, repl, t, i, acc) ==
    IF i > Len(t) THEN acc
    ELSE SubStep(pattern, repl, t, i, acc, MatchEnd(pattern, t, i))

\* str.strip()
StripTo(t, a, b) == IF a = 0 THEN <<>> ELSE SubSeq(t, a, b)
Strip(t) ==
    StripTo(t, MinOrZero({j \in 1..Len(t) : t[j] \notin Whitespace}),
            MaxOrZero({j \in 1..Len(t) : t[j] \notin Whitespace}))

(***************************************************************************)
(* The stages of TextPreprocessor.                                         *)
(***************************************************************************)
RemoveHtmlTags(t) == Sub("html", <<>>, t, 1, <<>>)
RemoveUrls(t) == Sub("url", <<>>, t, 1, <<>>)
RemoveEmails(t) == Sub("email", <<>>, t, 1, <<>>)

\* [^a-zA-Z0-9\s.,!?;:\-\'"()] removed
KeptChars ==
    Letters \cup Digits \cup Whitespace \cup
    {".", ",", "!", "?", ";", ":", "-", "'", "\"", "(", ")"}
RemoveSpecialCharacters(t) == SelectSeq(t, LAMBDA c : c \in KeptChars)

\* str.lower()
LowerStr(t) == [i \in DOMAIN t |-> LowerChar(t[i])]

\* word_tokenize of a text of letters and whitespace: its words
RECURSIVE WordTokenize(_, _, _, _)
WordTokenize(t, i, word, tokens) ==
    IF i > Len(t)
    THEN IF word = <<>> THEN tokens ELSE Append(tokens, word)
    ELSE IF t[i] \in Whitespace
    THEN WordTokenize(t, i + 1, <<>>,
                      IF word = <<>> THEN tokens ELSE Append(tokens, word))
    ELSE WordTokenize(t, i + 1, Append(word, t[i]), tokens)

\* the words the linguistic resources are tabulated for
Vocabulary ==
    {<<"T", "h", "e">>, <<"t", "h", "e">>, <<"c", "a", "t", "s">>,
     <<"c", "a", "t">>, <<"r", "u", "n", "n", "i", "n", "g">>,
     <<"r", "u", "n">>}

\* stopwords.words('english'), over the vocabulary
StopWords == {<<"t", "h", "e">>}

\* WordNetLemmatizer().lemmatize(token), over the vocabulary
Lemmatize(token) ==
    IF token = <<"c", "a", "t", "s">> THEN <<"c", "a", "t">> ELSE token

\* PorterStemmer().stem(token), over the vocabulary
Stem(token) ==
    IF token = <<"c", "a", "t", "s">> THEN <<"c", "a", "t">>
    ELSE IF token = <<"r", "u", "n", "n", "i", "n", "g">>
    THEN <<"r", "u", "n">>
    ELSE LowerStr(token)

\* ' '.join(tokens)
RECURSIVE Join(_, _)
Join(tokens, i) ==
    IF i > Len(tokens) THEN <<>>
    ELSE IF i = Len(tokens) THEN tokens[i]
    ELSE tokens[i] \o <<" ">> \o Join(tokens, i + 1)

DropStopWords(cfg, tokens) ==
    IF cfg.remove_stopwords
    THEN SelectSeq(tokens, LAMBDA token : LowerStr(token) \notin StopWords)
    ELSE tokens
LemmatizeTokens(cfg, tokens) ==
    IF cfg.lemmatize THEN [i \in DOMAIN tokens |-> Lemmatize(tokens[i])]
    ELSE tokens
StemTokens(cfg, tokens) ==
    IF cfg.stem THEN [i \in DOMAIN tokens |-> Stem(tokens[i])] ELSE tokens

\* TextPreprocessor._apply_nltk_preprocessing
ApplyNltkPreprocessing(cfg, t) ==
    Join(StemTokens(cfg, LemmatizeTokens(cfg,
             DropStopWords(cfg, WordTokenize(t, 1, <<>>, <<>>)))), 1)

\* the if statements of preprocess, in the order of the code
HtmlStep(cfg, t) == IF cfg.remove_html THEN RemoveHtmlTags(t) ELSE t
UrlStep(cfg, t) == IF cfg.remove_urls THEN RemoveUrls(t) ELSE t
EmailStep(cfg, t) == IF cfg.remove_emails THEN RemoveEmails(t) ELSE t
SpecialStep(cfg, t) ==
    IF cfg.remove_special_chars THEN RemoveSpecialCharacters(t) ELSE t
LowerStep(cfg, t) == IF cfg.lowercase THEN LowerStr(t) ELSE t
NltkStep(cfg, t) ==
    IF cfg.nltk /\ (cfg.remove_stopwords \/ cfg.lemmatize \/ cfg.stem)
    THEN ApplyNltkPreprocessing(cfg, t)
    ELSE t
\* re.sub(r'\s+', ' ', processed_text).strip()
CollapseStep(t) == Strip(Sub("space", <<" ">>, t, 1, <<>>))

\* the text preprocess hands to the NLTK stage
BeforeNltk(cfg, t) ==
    LowerStep(cfg, SpecialStep(cfg, EmailStep(cfg, UrlStep(cfg,
        HtmlStep(cfg, t)))))

\* preprocess with the URLs stripped before the markup
TPPreprocessUrlsFirst(cfg, x) ==
    IF ~x.truthy \/ x.type # "str" THEN <<>>
    ELSE CollapseStep(NltkStep(cfg, LowerStep(cfg, SpecialStep(cfg,
             EmailStep(cfg, HtmlStep(cfg, UrlStep(cfg, x.chars)))))))

\* preprocess without the isinstance test
TPPreprocessNoTypeCheck(cfg, x) ==
    IF ~x.truthy THEN <<>>
    ELSE CollapseStep(NltkStep(cfg, BeforeNltk(cfg, x.chars)))

\* TextPreprocessor.preprocess of the Python value x; the result is the
\* characters of the str returned
TPPreprocess(cfg, x) ==
    IF ~x.truthy \/ x.type # "str" THEN <<>>
    ELSE CollapseStep(NltkStep(cfg, BeforeNltk(cfg, x.chars)))

\* TextPreprocessor.clean_for_analysis
TPCleanForAnalysis(x) ==
    IF ~x.truthy \/ x.type # "str" THEN <<>>
    ELSE Strip(Sub("para", <<"\n", "\n">>,
                   Sub("blank", <<" ">>,
                       RemoveEmails(RemoveUrls(RemoveHtmlTags(x.chars))),
                       1, <<>>),
                   1, <<>>))

(***************************************************************************)
(* The texts handed to the TextPreprocessor.                               *)
(***************************************************************************)
\* ''
T_Empty ==
    Str(<<>>)
\* 'GOOD :)'
T_Case ==
    Str(<<"G", "O", "O", "D", " ", ":", ")">>)
\* '<b>Good</b> :)'
T_Markup ==
    Str(<<"<", "b", ">", "G", "o", "o", "d", "<", "/", "b", ">", " ", ":",
          ")">>)
\* 'http:/a@b.co/x'
T_Split ==
    Str(<<"h", "t", "t", "p", ":", "/", "a", "@", "b", ".", "c", "o", "/",
          "x">>)
\* '<http://a>b>'
T_TagUrl ==
    Str(<<"<", "h", "t", "t", "p", ":", "/", "/", "a", ">", "b", ">">>)
\* 'see  https://a.b/c?d now'
T_Url ==
    Str(<<"s", "e", "e", " ", " ", "h", "t", "t", "p", "s", ":", "/", "/",
          "a", ".", "b", "/", "c", "?", "d", " ", "n", "o", "w">>)
\* 'http://u@b.co x'
T_UrlMail ==
    Str(<<"h", "t", "t", "p", ":", "/", "/", "u", "@", "b", ".", "c", "o",
          " ", "x">>)
\* 'Mail me@x.org!'
T_Mail ==
    Str(<<"M", "a", "i", "l", " ", "m", "e", "@", "x", ".", "o", "r", "g",
          "!">>)
\* 'The  cats\n\nrunning '
T_Words ==
    Str(<<"T", "h", "e", " ", " ", "c", "a", "t", "s", "\n", "\n", "r",
          "u", "n", "n", "i", "n", "g", " ">>)
\* '<i>The</i> cats'
T_TagWords ==
    Str(<<"<", "i", ">", "T", "h", "e", "<", "/", "i", ">", " ", "c", "a",
          "t", "s">>)
\* 'a\n \n\nb\tc'
T_Lines ==
    Str(<<"a", "\n", " ", "\n", "\n", "b", "\t", "c">>)
\* '50% <3 it'
T_Special ==
    Str(<<"5", "0", "%", " ", "<", "3", " ", "i", "t">>)

PreInputs ==
    {T_Empty, T_Case, T_Markup, T_Split, T_TagUrl, T_Url,
     T_UrlMail, T_Mail, T_Words, T_TagWords, T_Lines, T_Special,
     PyNoneValue, PyInt(FALSE), PyInt(TRUE)}

(***************************************************************************)
(* The TextPreprocessor as an object: constructed, then called.            *)
(***************************************************************************)
Toggles ==
    {"remove_urls", "remove_emails", "remove_html", "remove_special_chars",
     "lowercase", "remove_stopwords", "lemmatize", "stem"}

\* TextPreprocessor.__init__: the fields it sets from its arguments arg;
\* nltk is NLTK_AVAILABLE
TPInit(arg, nltk) ==
    [cls |-> "TextPreprocessor",
     remove_urls |-> arg.remove_urls,
     remove_emails |-> arg.remove_emails,
     remove_html |-> arg.remove_html,
     remove_special_chars |-> arg.remove_special_chars,
     lowercase |-> arg.lowercase,
     remove_stopwords |-> arg.remove_stopwords /\ nltk,
     lemmatize |-> arg.lemmatize /\ nltk,
     stem |-> arg.stem /\ nltk,
     nltk |-> nltk]

\* the default arguments of TextPreprocessor()
DefaultArgs ==
    [remove_urls |-> TRUE, remove_emails |-> TRUE, remove_html |-> TRUE,
     remove_special_chars |-> FALSE, lowercase |-> TRUE,
     remove_stopwords |-> FALSE, lemmatize |-> FALSE, stem |-> FALSE]

\* TextPreprocessor(...)
NewTextPreprocessor ==
    /\ obj.cls = "none"
    /\ \E arg \in [Toggles -> BOOLEAN], nltk \in BOOLEAN :
          obj' = TPInit(arg, nltk)
    /\ UNCHANGED <<pipeline, loads, call, env>>

\* word_tokenize and the linguistic resources are tabulated for the words of
\* Vocabulary: a text reaches the NLTK stage only if it is made of them
Tokenizable(cfg, x) ==
    (x.truthy /\ x.type = "str"
       /\ cfg.nltk /\ (cfg.remove_stopwords \/ cfg.lemmatize \/ cfg.stem))
    => /\ Range(BeforeNltk(cfg, x.chars)) \subseteq Letters \cup Whitespace
       /\ Range(WordTokenize(BeforeNltk(cfg, x.chars), 1, <<>>, <<>>))
             \subseteq Vocabulary

\* preprocessor.preprocess(text)
PreprocessCall ==
    /\ obj.cls = "TextPreprocessor"
    /\ call = NoCall
    /\ \E x \in PreInputs :
          /\ Tokenizable(obj, x)
          /\ call' = [op |-> "preprocess", text |-> x,
                      out |-> TPPreprocess(obj, x)]
    /\ UNCHANGED <<obj, pipeline, loads, env>>

\* preprocessor.clean_for_analysis(text)
CleanCall ==
    /\ obj.cls = "TextPreprocessor"
    /\ call = NoCall
    /\ \E x \in PreInputs :
          call' = [op |-> "clean_for_analysis", text |-> x,
                   out |-> TPCleanForAnalysis(x)]
    /\ UNCHANGED <<obj, pipeline, loads, env>>

\* the normalisation step of SentimentAnalyzer.analyze: self.preprocessor is
\* the TextPreprocessor() of SentimentAnalyzer.__init__
AnalyzeNormalize ==
    /\ obj.cls = "TextPreprocessor"
    /\ \E nltk \in BOOLEAN : obj = TPInit(DefaultArgs, nltk)
    /\ call = NoCall
    /\ \E x \in PreInputs :
          call' = [op |-> "analyze", text |-> x,
                   handed |-> TPPreprocess(obj, x)]
    /\ UNCHANGED <<obj, pipeline, loads, env>>

NextPre ==
    \/ NewTextPreprocessor
    \/ PreprocessCall
    \/ CleanCall
    \/ AnalyzeNormalize
    \/ Discard

SpecPre == Init /\ [][NextPre]_vars

(***************************************************************************)
(* The two lexicon adapters on every output of their libraries.            *)
(***************************************************************************)
\* the values a polarity score takes: hundredths of [-1, 1], and the
\* neighbours of the thresholds at four decimals
Grid ==
    {Rat(c, 100) : c \in -100..100}
    \cup {Rat(c, 10000) : c \in {-1001, -999, -501, -499, 499, 501, 999, 1001}}

\* pos, neg and neu of polarity_scores: proportions of the text
Proportions ==
    {<<One, Zero, Zero>>, <<Zero, One, Zero>>, <<Zero, Zero, One>>,
     <<Rat(4, 10), Rat(4, 10), Rat(2, 10)>>}

\* the dicts SentimentIntensityAnalyzer.polarity_scores returns
VaderOutputs ==
    {[pos |-> p[1], neg |-> p[2], neu |-> p[3], compound |-> c] :
        p \in Proportions, c \in Grid}

\* VaderAnalyzer(), TextBlobAnalyzer()
NewVaderAnalyzer ==
    /\ obj.cls = "none"
    /\ obj' = [cls |-> "VaderAnalyzer"]
    /\ UNCHANGED <<pipeline, loads, call, env>>

NewTextBlobAnalyzer ==
    /\ obj.cls = "none"
    /\ obj' = [cls |-> "TextBlobAnalyzer"]
    /\ UNCHANGED <<pipeline, loads, call, env>>

\* VaderAnalyzer.analyze of a text for which polarity_scores returns scores
VaderCall ==
    /\ obj.cls = "VaderAnalyzer"
    /\ call = NoCall
    /\ \E scores \in VaderOutputs :
          call' = [op |-> "analyze", library |-> scores,
                   out |-> VaderResult(scores)]
    /\ UNCHANGED <<obj, pipeline, loads, env>>

\* TextBlobAnalyzer.analyze of a text whose blob.sentiment.polarity is
\* polarity
TextBlobCall ==
    /\ obj.cls = "TextBlobAnalyzer"
    /\ call = NoCall
    /\ \E polarity \in Grid :
          call' = [op |-> "analyze", library |-> polarity,
                   out |-> TextBlobResult(polarity)]
    /\ UNCHANGED <<obj, pipeline, loads, env>>

\* keyword hits of a text: each list has ten words; and its word counts
Hits == 0..3

WordCounts == {0, 1, 5, 10, 30, 100}

\* the counts _fallback_analysis can find: a text with a hit has a word
KeywordCountArgs ==
    {c \in [pos : Hits, neg : Hits, words : WordCounts] :
        c.words = 0 => c.pos = 0 /\ c.neg = 0}

\* TransformerAnalyzer(): the model loads or it does not
NewTransformerAnalyzer ==
    /\ obj.cls = "none"
    /\ obj' = [cls |-> "TransformerAnalyzer"]
    /\ \E load \in LoadOutcomes :
          /\ pipeline' = InitializeModel(load)
          /\ loads' = LoadAttempts(load)
    /\ UNCHANGED <<call, env>>

\* TransformerAnalyzer.analyze of a text that takes the keyword fallback
\* (no model, or inference raised) and has the keyword counts c
FallbackCall ==
    /\ obj.cls = "TransformerAnalyzer"
    /\ call = NoCall
    /\ \E c \in KeywordCountArgs :
          call' = [op |-> "analyze", library |-> c,
                   out |-> FallbackResult(c)]
    /\ UNCHANGED <<obj, pipeline, loads, env>>

NextLex ==
    \/ NewVaderAnalyzer
    \/ NewTextBlobAnalyzer
    \/ NewTransformerAnalyzer
    \/ VaderCall
    \/ TextBlobCall
    \/ FallbackCall
    \/ Discard

SpecLex == Init /\ [][NextLex]_vars

(***************************************************************************)
(* The scrapers' HTTP requests: BaseScraper._make_request, step by step,   *)
(* against the clock.  Times are whole seconds.                            *)
(***************************************************************************)
\* the clock stops here: a request starts only while its longest run fits
MaxTime == 60

\* BaseScraper(rate_limit=...): seconds between requests
RateLimits == {1, 12}

\* BaseScraper(retries=...)
RetryArgs == {0, 1, 3}

\* what one session.get does: a response with a status code, or a
\* requests.RequestException
Outcomes == {"200", "429", "500", "exception"}

\* seconds session.get takes
Latencies == {0, 1}

\* what _make_request returns: the response of an attempt, or None
Response(attempt) == [kind |-> "Response", attempt |-> attempt]

NoResponse == [kind |-> "None", attempt |-> 0]

\* the seconds _make_request sleeps after an attempt: random.uniform(5, 10)
\* on a 429, random.uniform(1, 3) on an exception that is not the last
\* attempt's, none otherwise
Sleeps(outcome, attempt, retries) ==
    IF outcome = "429" THEN {5, 10}
    ELSE IF outcome = "exception" /\ attempt < retries - 1 THEN {1, 3}
    ELSE {0}

\* the longest a _make_request of scraper o runs
Budget(o) == o.rate_limit + o.retries * 11

\* the times of the latest two GETs, after one more at time t
Sent(sent, t) ==
    IF Len(sent) = 0 THEN <<t>> ELSE <<sent[Len(sent)], t>>

\* BaseScraper._apply_rate_limit at time now: the seconds it sleeps
RateLimitSleep(o, now) ==
    IF now - o.last_request_time < o.rate_limit
    THEN o.rate_limit - (now - o.last_request_time)
    ELSE 0

\* AmazonScraper(rate_limit, retries): BaseScraper.__init__
NewScraper ==
    /\ obj.cls = "none"
    /\ \E rate_limit \in RateLimits, retries \in RetryArgs :
          obj' = [cls |-> "AmazonScraper", rate_limit |-> rate_limit,
                  retries |-> retries, last_request_time |-> 0]
    /\ env' = [env EXCEPT !.sent = <<>>]
    /\ UNCHANGED <<pipeline, loads, call>>

\* _make_request up to its loop: _apply_rate_limit sleeps out the rest of
\* rate_limit and stamps last_request_time
MakeRequest ==
    /\ obj.cls = "AmazonScraper"
    /\ call = NoCall
    /\ env.now + Budget(obj) <= MaxTime
    /\ env' = [env EXCEPT !.now = env.now + RateLimitSleep(obj, env.now)]
    /\ obj' = [obj EXCEPT !.last_request_time = env'.now]
    /\ call' = [op |-> "_make_request",
                pc |-> IF obj.retries > 0 THEN "get" ELSE "done",
                seen |-> <<>>, out |-> NoResponse]
    /\ UNCHANGED <<pipeline, loads>>

\* a loop that runs once more than range(self.retries)
AfterAttemptOneMore(outcome, attempts, retries) ==
    IF outcome = "200" \/ attempts > retries THEN "done" ELSE "get"

\* the position after the attempt that saw outcome: a 200 returns, the
\* last attempt ends the loop
AfterAttempt(outcome, attempts, retries) ==
    IF outcome = "200" \/ attempts >= retries THEN "done" ELSE "get"

\* one iteration of "for attempt in range(self.retries)": the GET, and the
\* sleep that follows it
Get ==
    /\ call.op = "_make_request"
    /\ call.pc = "get"
    /\ \E outcome \in Outcomes, latency \in Latencies :
       \E sleep \in Sleeps(outcome, Len(call.seen), obj.retries) :
          /\ env' = [env EXCEPT !.sent = Sent(env.sent, env.now),
                                !.now = env.now + latency + sleep]
          /\ call' = [call EXCEPT
                        !.seen = Append(call.seen, outcome),
                        !.pc = AfterAttempt(outcome, Len(call.seen) + 1,
                                            obj.retries),
                        !.out = IF outcome = "200"
                                THEN Response(Len(call.seen) + 1)
                                ELSE NoResponse]
    /\ UNCHANGED <<obj, pipeline, loads>>

\* _make_request has returned and the caller goes on
RequestReturn ==
    /\ call.op = "_make_request"
    /\ call.pc = "done"
    /\ call' = NoCall
    /\ UNCHANGED <<obj, pipeline, loads, env>>

\* time passes between two requests
Tick ==
    /\ obj.cls = "AmazonScraper"
    /\ call = NoCall
    /\ env.now < MaxTime
    /\ env' = [env EXCEPT !.now = env.now + 1]
    /\ UNCHANGED <<obj, pipeline, loads, call>>

NextScrape ==
    \/ NewScraper
    \/ MakeRequest
    \/ Get
    \/ RequestReturn
    \/ Tick

SpecScrape == Init /\ [][NextScrape]_vars

\* the thread inside _make_request keeps running
SpecScrapeFair == SpecScrape /\ WF_vars(Get)

(***************************************************************************)
(* AmazonScraper.scrape_reviews, page by page.  Each _make_request is      *)
(* taken whole, by what it returns (a response, or None); its steps, the   *)
(* clock and last_request_time are those of SpecScrape and scrape_reviews  *)
(* reads none of them.  A list of reviews is known by its length.          *)
(***************************************************************************)
\* "page <= 10": the pages scrape_reviews asks for at most
PageLimit == 10

\* "len(page_reviews) < 10": the reviews of a full page
FullPage == 10

\* max_reviews handed to scrape_reviews (100 by default)
MaxReviewsArgs == {0, 5, 10, 25, 100, 200}

\* what _get_reviews_url(url) finds: the product page is not loaded, it
\* holds the link to the reviews, the URL holds an ASIN, or neither
Landings == {"no_response", "link", "asin", "nothing"}

\* len(page_reviews) of a page that was loaded and parsed
PageSizes == {0, 3, 10, 12}

\* what asking for one page of reviews gives: no response, an exception
\* while the page is parsed, or the reviews of the page
PageOutcomes ==
    [kind : {"no_response", "raises"}, n : {0}]
    \cup [kind : {"reviews"}, n : PageSizes]

\* "reviews" returned as it is
WholeList(reviews, max_reviews) == reviews

\* len(reviews[:max_reviews])
Slice(reviews, max_reviews) ==
    IF reviews < max_reviews THEN reviews ELSE max_reviews

\* "while len(reviews) < max_reviews and page <= 10"
LoopCondition(c) == c.reviews < c.max_reviews /\ c.page <= PageLimit

\* the call after the body of the loop ran on a page with outcome o
AfterPage(c, o) ==
    IF o.kind = "raises"
    THEN [c EXCEPT !.pc = "done", !.log = Append(c.log, o),
                   !.out = c.reviews]
    ELSE IF o.kind = "no_response" \/ o.n = 0
    THEN [c EXCEPT !.pc = "done", !.log = Append(c.log, o),
                   !.out = Slice(c.reviews, c.max_reviews)]
    ELSE [c EXCEPT !.pc = IF o.n < FullPage THEN "done" ELSE "loop",
                   !.log = Append(c.log, o),
                   !.reviews = c.reviews + o.n,
                   !.page = c.page + 1,
                   !.out = IF o.n < FullPage
                           THEN Slice(c.reviews + o.n, c.max_reviews)
                           ELSE 0]

\* the outcomes a _make_request of scraper o can have: a response takes an
\* attempt
RequestOutcomes(o, all) ==
    IF o.retries > 0 THEN all ELSE {x \in all : x.kind = "no_response"}

\* scraper.scrape_reviews(url, max_reviews) up to its loop: the request
\* for the product page and the search for the reviews URL
ScrapeReviews ==
    /\ obj.cls = "AmazonScraper"
    /\ call = NoCall
    /\ \E max_reviews \in MaxReviewsArgs, landing \in Landings :
          /\ landing # "no_response" => obj.retries > 0
          /\ call' = [op |-> "scrape_reviews", max_reviews |-> max_reviews,
                      landing |-> landing,
                      pc |-> IF landing \in {"link", "asin"} THEN "loop"
                             ELSE "done",
                      page |-> 1, reviews |-> 0, log |-> <<>>, out |-> 0]
    /\ UNCHANGED <<obj, pipeline, loads, env>>

\* one test of the loop's condition and, when it holds, one run of its
\* body: the request for the page, the reviews taken from it, the breaks
Page ==
    /\ call.op = "scrape_reviews"
    /\ call.pc = "loop"
    /\ IF LoopCondition(call)
       THEN \E o \in RequestOutcomes(obj, PageOutcomes) :
               call' = AfterPage(call, o)
       ELSE call' = [call EXCEPT !.pc = "done",
                                 !.out = Slice(call.reviews,
                                               call.max_reviews)]
    /\ UNCHANGED <<obj, pipeline, loads, env>>

\* scrape_reviews has returned and the caller goes on
ScrapeReturn ==
    /\ call.op = "scrape_reviews"
    /\ call.pc = "done"
    /\ call' = NoCall
    /\ UNCHANGED <<obj, pipeline, loads, env>>

NextAmazon ==
    \/ NewScraper
    \/ ScrapeReviews
    \/ Page
    \/ ScrapeReturn

SpecAmazon == Init /\ [][NextAmazon]_vars

\* the thread inside scrape_reviews keeps running
SpecAmazonFair == SpecAmazon /\ WF_vars(Page)

(***************************************************************************)
(* The scraper factory: URLs as strings of characters, urlparse, the       *)
(* domain mapping, get_scraper_by_url and BaseScraper.validate_url.        *)
(***************************************************************************)
\* AmazonScraper.get_supported_domains
AmazonDomains ==
    <<<<"a", "m", "a", "z", "o", "n", ".", "c", "o", "m">>,
      <<"a", "m", "a", "z", "o", "n", ".", "c", "o", ".", "u", "k">>,
      <<"a", "m", "a", "z", "o", "n", ".", "c", "a">>,
      <<"a", "m", "a", "z", "o", "n", ".", "d", "e">>,
      <<"a", "m", "a", "z", "o", "n", ".", "f", "r">>,
      <<"a", "m", "a", "z", "o", "n", ".", "i", "t">>,
      <<"a", "m", "a", "z", "o", "n", ".", "e", "s">>,
      <<"a", "m", "a", "z", "o", "n", ".", "i", "n">>,
      <<"a", "m", "a", "z", "o", "n", ".", "c", "o", "m", ".", "a", "u">>>>

\* IMDbScraper.get_supported_domains
IMDbDomains ==
    <<<<"i", "m", "d", "b", ".", "c", "o", "m">>>>

\* TripAdvisorScraper.get_supported_domains
TripAdvisorDomains ==
    <<<<"t", "r", "i", "p", "a", "d", "v", "i", "s", "o", "r", ".", "c",
        "o", "m">>,
      <<"t", "r", "i", "p", "a", "d", "v", "i", "s", "o", "r", ".", "c",
        "o", ".", "u", "k">>,
      <<"t", "r", "i", "p", "a", "d", "v", "i", "s", "o", "r", ".", "c", "a">>,
      <<"t", "r", "i", "p", "a", "d", "v", "i", "s", "o", "r", ".", "d", "e">>,
      <<"t", "r", "i", "p", "a", "d", "v", "i", "s", "o", "r", ".", "f", "r">>,
      <<"t", "r", "i", "p", "a", "d", "v", "i", "s", "o", "r", ".", "i", "t">>,
      <<"t", "r", "i", "p", "a", "d", "v", "i", "s", "o", "r", ".", "e", "s">>>>

\* scraper.get_supported_domains() of a scraper of class cls
GetSupportedDomains(cls) ==
    CASE cls = "AmazonScraper" -> AmazonDomains
      [] cls = "IMDbScraper" -> IMDbDomains
      [] cls = "TripAdvisorScraper" -> TripAdvisorDomains

\* ScraperFactory._scrapers, in insertion order
ScraperClasses == <<"AmazonScraper", "IMDbScraper", "TripAdvisorScraper">>

RECURSIVE BuildDomainMapping(_, _)
\* ScraperFactory._build_domain_mapping from class i on: the items of
\* _domain_mapping in insertion order
BuildDomainMapping(i, mapping) ==
    IF i > Len(ScraperClasses) THEN mapping
    ELSE BuildDomainMapping(i + 1,
             mapping \o [k \in DOMAIN GetSupportedDomains(ScraperClasses[i])
                            |-> [domain |-> LowerStr(GetSupportedDomains(
                                                ScraperClasses[i])[k]),
                                 scraper_class |-> ScraperClasses[i]]])

DomainMapping == BuildDomainMapping(1, <<>>)

\* the characters of a URL scheme
SchemeChars == Letters \cup Digits \cup {"+", "-", "."}

\* the position of the ':' that ends the scheme of url; 0 without a scheme
SchemeEnd(url) ==
    LET colon == MinOrZero({j \in DOMAIN url : url[j] = ":"})
    IN IF /\ colon > 1
          /\ url[1] \in Letters
          /\ \A k \in 1..(colon - 1) : url[k] \in SchemeChars
       THEN colon ELSE 0

\* urlsplit's _splitnetloc of what follows the scheme: after '//', up to
\* the first of '/', '?', '#'
SplitNetloc(rest) ==
    IF StartsWith(rest, 1, <<"/", "/">>)
    THEN SubSeq(rest, 3,
                StopBefore(MinOrZero({j \in 3..Len(rest) :
                                         rest[j] \in {"/", "?", "#"}}),
                           Len(rest)))
    ELSE <<>>

\* urlsplit's check of the brackets of the netloc
CheckedNetloc(netloc) ==
    IF ("[" \in Range(netloc)) # ("]" \in Range(netloc))
    THEN Raised("ValueError")
    ELSE Returned(netloc)

\* urlparse(url).netloc
Netloc(url) ==
    CheckedNetloc(SplitNetloc(SubSeq(url, SchemeEnd(url) + 1, Len(url))))

\* p in t, for strings
Contains(t, p) == \E i \in 1..(Len(t) + 1) : StartsWith(t, i, p)

\* domain[4:] if domain.startswith('www.')
StripWww(domain) ==
    IF StartsWith(domain, 1, <<"w", "w", "w", ".">>)
    THEN SubSeq(domain, 5, Len(domain))
    ELSE domain

\* the class get_scraper_by_url picks for the domain: the direct match,
\* else the first item of the mapping whose domain the domain contains;
\* "None" without one
ScraperClassFor(domain) ==
    LET direct == {i \in DOMAIN DomainMapping :
                      DomainMapping[i].domain = domain}
        contained == {i \in DOMAIN DomainMapping :
                         Contains(domain, DomainMapping[i].domain)}
    IN IF direct # {} THEN DomainMapping[MaxOrZero(direct)].scraper_class
       ELSE IF contained # {}
       THEN DomainMapping[MinOrZero(contained)].scraper_class
       ELSE "None"

\* get_scraper_by_url from the parsed netloc on; an exception of urlparse
\* is caught and None returned
ScraperClassOfNetloc(netloc) ==
    IF netloc.raised THEN "None"
    ELSE ScraperClassFor(StripWww(LowerStr(netloc.value)))

\* the class of the scraper ScraperFactory.get_scraper_by_url(url)
\* returns; "None" when it returns None
GetScraperByUrl(url) == ScraperClassOfNetloc(Netloc(url))

\* the membership test of validate_url on the parsed netloc
NetlocSupported(cls, netloc) ==
    /\ ~netloc.raised
    /\ LowerStr(netloc.value) \in Range(GetSupportedDomains(cls))

\* BaseScraper.validate_url on a scraper of class cls
ValidateUrl(cls, url) == NetlocSupported(cls, Netloc(url))
\* 'https://amazon.com/product/test'
U_Amazon ==
    <<"h", "t", "t", "p", "s", ":", "/", "/", "a", "m", "a", "z", "o", "n",
      ".", "c", "o", "m", "/", "p", "r", "o", "d", "u", "c", "t", "/", "t",
      "e", "s", "t">>
\* 'https://www.amazon.com/dp/B0'
U_WwwAmazon ==
    <<"h", "t", "t", "p", "s", ":", "/", "/", "w", "w", "w", ".", "a", "m",
      "a", "z", "o", "n", ".", "c", "o", "m", "/", "d", "p", "/", "B", "0">>
\* 'https://smile.amazon.com/x'
U_SmileAmazon ==
    <<"h", "t", "t", "p", "s", ":", "/", "/", "s", "m", "i", "l", "e", ".",
      "a", "m", "a", "z", "o", "n", ".", "c", "o", "m", "/", "x">>
\* 'https://amazon.com:443/x'
U_AmazonPort ==
    <<"h", "t", "t", "p", "s", ":", "/", "/", "a", "m", "a", "z", "o", "n",
      ".", "c", "o", "m", ":", "4", "4", "3", "/", "x">>
\* 'https://amazon.com.evil.org/'
U_AmazonInEvil ==
    <<"h", "t", "t", "p", "s", ":", "/", "/", "a", "m", "a", "z", "o", "n",
      ".", "c", "o", "m", ".", "e", "v", "i", "l", ".", "o", "r", "g", "/">>
\* 'https://www.amazon.com.au/x'
U_AmazonAu ==
    <<"h", "t", "t", "p", "s", ":", "/", "/", "w", "w", "w", ".", "a", "m",
      "a", "z", "o", "n", ".", "c", "o", "m", ".", "a", "u", "/", "x">>
\* 'HTTPS://IMDb.com/title'
U_ImdbUpper ==
    <<"H", "T", "T", "P", "S", ":", "/", "/", "I", "M", "D", "b", ".", "c",
      "o", "m", "/", "t", "i", "t", "l", "e">>
\* 'http://www.tripadvisor.co.uk'
U_WwwTripadvisorUk ==
    <<"h", "t", "t", "p", ":", "/", "/", "w", "w", "w", ".", "t", "r", "i",
      "p", "a", "d", "v", "i", "s", "o", "r", ".", "c", "o", ".", "u", "k">>
\* 'https://tripadvisor.de?q'
U_TripadvisorDe ==
    <<"h", "t", "t", "p", "s", ":", "/", "/", "t", "r", "i", "p", "a", "d",
      "v", "i", "s", "o", "r", ".", "d", "e", "?", "q">>
\* 'https://example.org/amazon.com'
U_PathOnly ==
    <<"h", "t", "t", "p", "s", ":", "/", "/", "e", "x", "a", "m", "p", "l",
      "e", ".", "o", "r", "g", "/", "a", "m", "a", "z", "o", "n", ".", "c",
      "o", "m">>
\* 'amazon.com/dp'
U_NoScheme ==
    <<"a", "m", "a", "z", "o", "n", ".", "c", "o", "m", "/", "d", "p">>
\* 'http://[amazon.com'
U_Bracket ==
    <<"h", "t", "t", "p", ":", "/", "/", "[", "a", "m", "a", "z", "o", "n",
      ".", "c", "o", "m">>
\* ''
U_Empty ==
    <<>>
Urls ==
    {U_Amazon, U_WwwAmazon, U_SmileAmazon, U_AmazonPort,
     U_AmazonInEvil, U_AmazonAu, U_ImdbUpper, U_WwwTripadvisorUk,
     U_TripadvisorDe, U_PathOnly, U_NoScheme, U_Bracket,
     U_Empty}

\* ScraperFactory()
NewScraperFactory ==
    /\ obj.cls = "none"
    /\ obj' = [cls |-> "ScraperFactory"]
    /\ UNCHANGED <<pipeline, loads, call, env>>

\* scraper_class(**kwargs): the fields BaseScraper.__init__ sets
ScraperObject(cls, rate_limit, retries) ==
    [cls |-> cls, rate_limit |-> rate_limit, retries |-> retries,
     last_request_time |-> 0]

\* what get_scraper_by_url returns: the scraper, or None
FactoryReturn(cls, rate_limit, retries) ==
    IF cls = "None" THEN ScraperObject("None", 0, 0)
    ELSE ScraperObject(cls, rate_limit, retries)

\* factory.get_scraper_by_url(url, rate_limit=..., retries=...)
GetScraperByUrlCall ==
    /\ obj.cls = "ScraperFactory"
    /\ call = NoCall
    /\ \E url \in Urls, rate_limit \in RateLimits, retries \in RetryArgs :
          call' = [op |-> "get_scraper_by_url", url |-> url,
                   out |-> FactoryReturn(GetScraperByUrl(url), rate_limit,
                                         retries)]
    /\ UNCHANGED <<obj, pipeline, loads, env>>

\* s.validate_url(url) on the scraper s the latest get_scraper_by_url
\* returned for the URL made_for
ValidateUrlCall ==
    /\ call.op = "get_scraper_by_url"
    /\ call.out.cls # "None"
    /\ \E url \in Urls :
          call' = [op |-> "validate_url", scraper |-> call.out,
                   made_for |-> call.url, url |-> url,
                   out |-> ValidateUrl(call.out.cls, url)]
    /\ UNCHANGED <<obj, pipeline, loads, env>>

NextFactory ==
    \/ NewScraperFactory
    \/ GetScraperByUrlCall
    \/ ValidateUrlCall
    \/ Discard

SpecFactory == Init /\ [][NextFactory]_vars

(***************************************************************************)
(* The web application (app.py): the module-level analyzer, the database   *)
(* of analysis results, and the JSON endpoints.                            *)
(***************************************************************************)
\* rows the analysis_history table holds at most
MaxRows == 3

\* what sqlite3 does during one save_analysis_result: the INSERT commits,
\* or connect, execute or commit raises
DbOutcomes == {"ok", "raises"}

\* save_analysis_result that lets the database's exception through
SaveAnalysisResultRaises(rows, db) ==
    IF db = "ok" THEN [raised |-> FALSE, rows |-> rows + 1]
    ELSE [raised |-> TRUE, rows |-> rows]

\* save_analysis_result: the row is inserted, or the exception is logged
SaveAnalysisResult(rows, db) ==
    [raised |-> FALSE, rows |-> IF db = "ok" THEN rows + 1 ELSE rows]

\* the JSON body api_analyze builds from a SentimentResult
ResultJson(r) ==
    [text |-> r.text, sentiment |-> r.sentiment, confidence |-> r.confidence,
     scores |-> r.scores, method |-> r.method,
     processing_time |-> r.processing_time]

\* the body of an error response
ErrorJson ==
    [text |-> "error", sentiment |-> "error", confidence |-> Zero,
     scores |-> ZeroScores, method |-> "error", processing_time |-> Zero]

\* the response of api_analyze: 200 with the result, 500 from the outer
\* except when analyze or the save raised
AnalyzeResponse(result, saved) ==
    IF result.raised \/ saved.raised
    THEN [status |-> 500, body |-> ErrorJson]
    ELSE [status |-> 200, body |-> ResultJson(result.value)]

\* the module is imported: analyzer = SentimentAnalyzer(method="ensemble")
NewApp ==
    /\ obj.cls = "none"
    /\ \E load \in LoadOutcomes :
          /\ pipeline' = InitializeModel(load)
          /\ loads' = LoadAttempts(load)
    /\ obj' = [cls |-> "App", method |-> "ensemble", preprocess |-> TRUE]
    /\ UNCHANGED <<call, env>>

\* the SentimentAnalyzer(method=method) api_analyze builds for one request
TempAnalyzer(method) ==
    [cls |-> "SentimentAnalyzer", method |-> method, preprocess |-> TRUE]

\* the outcome of save_analysis_result(result) in api_analyze, when it ran
Saved(rows, result, db) ==
    IF result.raised THEN [raised |-> FALSE, rows |-> rows]
    ELSE SaveAnalysisResult(rows, db)

\* the call record of one POST /api/analyze
AnalyzeRequest(text, method, db, result, rows) ==
    [op |-> "api_analyze", text |-> text, method |-> method, db |-> db,
     result |-> result,
     response |-> AnalyzeResponse(result, Saved(rows, result, db))]

\* POST /api/analyze with a text and a method; load is what loading the
\* model of the request's own analyzer does
ApiAnalyze ==
    /\ obj.cls = "App"
    /\ call = NoCall
    /\ env.rows < MaxRows
    /\ \E text \in InputTexts, method \in MethodArgs,
          load \in LoadOutcomes, fault \in Faults, elapsed \in Elapsed,
          db \in DbOutcomes :
          /\ call' = AnalyzeRequest(text, method, db,
                         SAAnalyze(TempAnalyzer(method), InitializeModel(load),
                                   text, fault, elapsed),
                         env.rows)
          /\ env' = [env EXCEPT !.rows =
                         Saved(env.rows, call'.result, db).rows]
    /\ UNCHANGED <<obj, pipeline, loads>>

\* POST /api/analyze without a JSON body or without 'text': 400
ApiAnalyzeNoText ==
    /\ obj.cls = "App"
    /\ call = NoCall
    /\ call' = [op |-> "api_analyze_no_text",
                response |-> [status |-> 400, body |-> ErrorJson]]
    /\ UNCHANGED <<obj, pipeline, loads, env>>

\* a review the scraper returned: its text, and whether analyzer.analyze
\* raises on it (an exception that leaves the normalisation, say), each
\* time it is called on it
Reviews == [text : {"GOOD", "bad"}, fault : {"none", "preprocess"}]

\* what scraper.scrape_reviews(url, max_reviews) returns
ReviewLists == UNION {[1..n -> Reviews] : n \in 0..MaxBatch}

\* analyzer.analyze(review.text) of the module's analyzer
ReviewAnalyze(o, handle, review) ==
    IF review.fault = "preprocess" THEN Raised("Exception")
    ELSE SAAnalyze(o, handle, review.text, "none", 1)

\* the entry api_scrape appends to results for a review
ResultEntry(review, result) ==
    [review |-> review.text, sentiment |-> result.sentiment,
     confidence |-> result.confidence, scores |-> result.scores]

\* one run of the body of "for review in reviews": acc holds results and
\* the rows of the database; r is the outcome of analyze
ReviewStep(acc, review, r, db) ==
    IF r.raised THEN acc
    ELSE [results |-> Append(acc.results, ResultEntry(review, r.value)),
          rows |-> SaveAnalysisResult(acc.rows, db).rows]

RECURSIVE ReviewLoop(_, _, _, _, _, _)
\* "for review in reviews" from reviews[i] on
ReviewLoop(o, handle, reviews, i, db, acc) ==
    IF i > Len(reviews) THEN acc
    ELSE ReviewLoop(o, handle, reviews, i + 1, db,
                    ReviewStep(acc, reviews[i],
                               ReviewAnalyze(o, handle, reviews[i]), db))

\* sentiment_results = [analyzer.analyze(r.text) for r in reviews]: the
\* outcomes of the calls
SentimentResults(o, handle, reviews) ==
    [i \in 1..Len(reviews) |-> ReviewAnalyze(o, handle, reviews[i])]

\* the response without statistics: an error, or the body of a 500
ErrorResponse(status) ==
    [status |-> status, total_reviews |-> 0, analyzed_reviews |-> 0,
     statistics |-> [empty |-> TRUE]]

\* the response of api_scrape once the loop over the reviews has run: an
\* exception of the second round of analyze calls reaches the outer except
ScrapeResponse(reviews, results, again) ==
    IF \E i \in 1..Len(again) : again[i].raised
    THEN ErrorResponse(500)
    ELSE [status |-> 200, total_reviews |-> Len(reviews),
          analyzed_reviews |-> Len(results),
          statistics |-> GetStatistics([i \in 1..Len(again) |->
                                           again[i].value])]

\* api_scrape from the URL on: 400 for a URL without scraper, 404 for no
\* reviews, else the loop and the statistics
ScrapeOutcome(o, handle, url, reviews, db, rows) ==
    IF GetScraperByUrl(url) = "None"
    THEN [rows |-> rows, response |-> ErrorResponse(400)]
    ELSE IF Len(reviews) = 0
    THEN [rows |-> rows, response |-> ErrorResponse(404)]
    ELSE [rows |-> ReviewLoop(o, handle, reviews, 1, db,
                              [results |-> <<>>, rows |-> rows]).rows,
          response |->
              ScrapeResponse(reviews,
                             ReviewLoop(o, handle, reviews, 1, db,
                                        [results |-> <<>>,
                                         rows |-> rows]).results,
                             SentimentResults(o, handle, reviews))]

\* URLs posted to /api/scrape
ScrapeUrls == {U_Amazon, U_WwwAmazon, U_PathOnly}

\* POST /api/scrape with a URL; reviews is what the scraper returns for it
ApiScrape ==
    /\ obj.cls = "App"
    /\ call = NoCall
    /\ \E url \in ScrapeUrls, reviews \in ReviewLists, db \in DbOutcomes :
          /\ env.rows + Len(reviews) <= MaxRows
          /\ call' = [op |-> "api_scrape", url |-> url, reviews |-> reviews,
                      db |-> db,
                      response |->
                          ScrapeOutcome(obj, pipeline, url, reviews, db,
                                        env.rows).response]
          /\ env' = [env EXCEPT !.rows =
                         ScrapeOutcome(obj, pipeline, url, reviews, db,
                                       env.rows).rows]
    /\ UNCHANGED <<obj, pipeline, loads>>

\* POST /api/scrape without a JSON body or without 'url': 400
ApiScrapeNoUrl ==
    /\ obj.cls = "App"
    /\ call = NoCall
    /\ call' = [op |-> "api_scrape_no_url", response |-> ErrorResponse(400)]
    /\ UNCHANGED <<obj, pipeline, loads, env>>

NextApp ==
    \/ NewApp
    \/ ApiAnalyze
    \/ ApiAnalyzeNoText
    \/ ApiScrape
    \/ ApiScrapeNoUrl
    \/ Discard

SpecApp == Init /\ [][NextApp]_vars

(***************************************************************************)
(* Vocabulary of the properties.                                           *)
(***************************************************************************)
\* the latest call was an ensemble analyze: SentimentAnalyzer with method
\* "ensemble", or EnsembleAnalyzer with at least one analyzer
EnsembleCall ==
    /\ call.op = "analyze"
    /\ \/ obj.cls = "SentimentAnalyzer" /\ obj.method = "ensemble"
       \/ obj.cls = "EnsembleAnalyzer" /\ Len(obj.analyzers) > 0

\* the adapters the ensemble of the object runs, and their weights
Configured ==
    IF obj.cls = "EnsembleAnalyzer"
    THEN {obj.analyzers[i] : i \in 1..Len(obj.analyzers)}
    ELSE {"vader", "textblob", "transformer"}

WeightOf(a) ==
    IF obj.cls = "EnsembleAnalyzer" THEN obj.weights[a]
    ELSE CASE a = "vader" -> Rat(4, 10) [] OTHER -> Rat(3, 10)

\* the adapters that raised, and that returned, during the latest call
RaisedNow == {a \in Configured : call.individual[a].raised}
Survivors == Configured \ RaisedNow

\* what the latest ensemble call returned: label, confidence, scores
Verdict == call.out.value

RECURSIVE SumSet(_, _)
\* the sum of f[a] over the adapters a of S
SumSet(f, S) ==
    IF S = {} THEN Zero
    ELSE LET a == CHOOSE x \in S : TRUE
         IN RAdd(f[a], SumSet(f, S \ {a}))

\* weight(a) * scores[a][label] summed over the surviving adapters
Weighted(label) ==
    SumSet([a \in Survivors |->
               RMul(WeightOf(a), call.individual[a].value.scores[label])],
           Survivors)

WeightedTotal ==
    RAdd(RAdd(Weighted("positive"), Weighted("negative")), Weighted("neutral"))

IsDistribution(s) ==
    /\ \A l \in Labels : RLe(Zero, s[l])
    /\ SumScores(s) = One

(***************************************************************************)
(* C1.  Partial failure isolation: when a non-empty proper subset of the   *)
(* adapters raises during an ensemble analyze call, the call returns, and  *)
(* each returned score is the weighted sum over the surviving adapters     *)
(* divided by the combined sum, so that the scores sum to 1.               *)
(***************************************************************************)
C1_PartialFailureIsolation ==
    (EnsembleCall /\ RaisedNow # {} /\ Survivors # {}) =>
        /\ ~call.out.raised
        /\ RLt(Zero, WeightedTotal)
        /\ \A l \in Labels :
              Verdict.scores[l] = RDiv(Weighted(l), WeightedTotal)
        /\ SumScores(Verdict.scores) = One

(***************************************************************************)
(* C2.  Total failure: when every configured adapter raises during an      *)
(* ensemble analyze call, the call raises NoAdaptersAvailable and returns  *)
(* no label and confidence.                                                *)
(***************************************************************************)
C2_TotalFailureRaises ==
    (EnsembleCall /\ Survivors = {}) =>
        /\ call.out.raised
        /\ call.out.error = "NoAdaptersAvailable"

(***************************************************************************)
(* C3.  analyze_batch never raises and returns one result per text, in     *)
(* input order: result i carries texts[i] and is what analyze(texts[i])    *)
(* returned, or, when that call raised, the placeholder with sentiment     *)
(* neutral, confidence 0, scores {0, 0, 1} and processing time 0.          *)
(***************************************************************************)
BatchCall == obj.cls = "SentimentAnalyzer" /\ call.op = "analyze_batch"

\* what analyze does on item i of the latest batch
ItemOutcome(i) ==
    SAAnalyze(obj, pipeline, call.inputs[i].text, call.inputs[i].fault,
              call.inputs[i].elapsed)

IsPlaceholder(r) ==
    /\ r.sentiment = "neutral"
    /\ r.confidence = Zero
    /\ r.scores = [positive |-> Zero, negative |-> Zero, neutral |-> One]
    /\ r.processing_time = Zero

C3_BatchIsolation ==
    BatchCall =>
        /\ ~call.out.raised
        /\ Len(call.out.value) = Len(call.inputs)
        /\ \A i \in 1..Len(call.inputs) :
              /\ call.out.value[i].text = call.inputs[i].text
              /\ call.out.value[i].method = obj.method
              /\ IF ItemOutcome(i).raised
                 THEN IsPlaceholder(call.out.value[i])
                 ELSE call.out.value[i] = ItemOutcome(i).value

\* a batch of two whose first item failed and whose second was analysed
C3_Witness ==
    /\ BatchCall
    /\ Len(call.inputs) = 2
    /\ ItemOutcome(1).raised
    /\ ~ItemOutcome(2).raised
    /\ IsPlaceholder(call.out.value[1])
    /\ ~IsPlaceholder(call.out.value[2])

(***************************************************************************)
(* C4.  The scores every adapter returns (VADER, TextBlob, Transformer     *)
(* through _parse_results or through the keyword fallback) and the scores  *)
(* the ensemble returns are non-negative and sum to 1, for every string    *)
(* handed to them, the empty string included.                              *)
(***************************************************************************)
C4_ScoresAreDistributions ==
    (call.op = "analyze" /\ IsStr(call.handed)) =>
        /\ \A a \in DOMAIN call.individual :
              ~call.individual[a].raised =>
                  IsDistribution(call.individual[a].value.scores)
        /\ (EnsembleCall /\ ~call.out.raised) =>
              IsDistribution(Verdict.scores)

(***************************************************************************)
(* C5.  In an ensemble result the label is the arg max of the combined     *)
(* scores, exact ties going to positive before negative before neutral,    *)
(* and the confidence is the combined score of that label.                 *)
(***************************************************************************)
\* position of a label in the order positive, negative, neutral
Rank(l) == CHOOSE i \in 1..3 : LabelOrder[i] = l

C5_ArgMaxWithTieOrder ==
    (EnsembleCall /\ ~call.out.raised) =>
        /\ Verdict.sentiment \in Labels
        /\ \A l \in Labels :
              /\ RLe(Verdict.scores[l], Verdict.scores[Verdict.sentiment])
              /\ Rank(l) < Rank(Verdict.sentiment) =>
                    RLt(Verdict.scores[l], Verdict.scores[Verdict.sentiment])
        /\ Verdict.confidence = Verdict.scores[Verdict.sentiment]

\* an exact tie of positive and negative at the top, with no adapter failed
C5_Witness ==
    /\ EnsembleCall
    /\ ~call.out.raised
    /\ RaisedNow = {}
    /\ Verdict.scores["positive"] = Verdict.scores["negative"]
    /\ RLt(Verdict.scores["neutral"], Verdict.scores["positive"])
    /\ Verdict.sentiment = "positive"

(***************************************************************************)
(* C6.  A SentimentAnalyzer constructed with a method name outside vader,  *)
(* textblob, transformer, ensemble exists (construction raised nothing),   *)
(* and every analyze call on it raises "Unknown analysis method" and       *)
(* returns no result.                                                      *)
(***************************************************************************)
UnknownMethod == obj.cls = "SentimentAnalyzer" /\ obj.method \notin Methods

C6_UnknownMethodRaisesAtCall ==
    (UnknownMethod /\ call.op = "analyze") =>
        /\ call.out.raised
        /\ call.out.error = "ValueError: Unknown analysis method"

C6_Witness ==
    /\ UnknownMethod
    /\ call.op = "analyze"
    /\ IsStr(call.text)
    /\ call.out.raised

(***************************************************************************)
(* C7.  TransformerAnalyzer.analyze raises for no string: when no model    *)
(* was loaded at construction, or when inference raises during the call,   *)
(* it returns the result of the keyword-count fallback, marked fallback.   *)
(***************************************************************************)
TransformerCalled ==
    call.op = "analyze" /\ "transformer" \in DOMAIN call.individual

TransformerOutcome == call.individual["transformer"]

\* the label the keyword counts of text t give
KeywordLabel(t) ==
    IF KeywordCounts(t).pos > KeywordCounts(t).neg THEN "positive"
    ELSE IF KeywordCounts(t).neg > KeywordCounts(t).pos THEN "negative"
    ELSE "neutral"

C7_TransformerNeverRaises ==
    (TransformerCalled /\ IsStr(call.handed)) =>
        /\ ~TransformerOutcome.raised
        /\ (pipeline = "none" \/ call.fault = "pipeline") =>
              /\ TransformerOutcome.value.fallback
              /\ TransformerOutcome.value.sentiment \in
                    {KeywordLabel(call.handed),
                     KeywordLabel(Truncate(call.handed))}
        /\ (pipeline # "none" /\ call.fault # "pipeline") =>
              ~TransformerOutcome.value.fallback

\* a model was loaded and inference raised on a string
C7_Witness ==
    /\ TransformerCalled
    /\ IsStr(call.handed)
    /\ pipeline \in {"primary", "fallback"}
    /\ call.fault = "pipeline"
    /\ ~TransformerOutcome.raised
    /\ TransformerOutcome.value.fallback

(***************************************************************************)
(* C8.  Model-handle lifecycle: the model is loaded only during            *)
(* construction, by at most two pipeline(...) calls (the named model, then *)
(* the fallback model); no later call changes self.pipeline or loads       *)
(* again, so after a failed load every analyze call of the transformer     *)
(* takes the keyword fallback, and after a successful one every call uses  *)
(* the handle construction left.                                           *)
(***************************************************************************)
C8_HandleLatched ==
    [][/\ loads' <= 2
       /\ obj.cls # "none" =>
             /\ pipeline' = pipeline
             /\ loads' = loads
             /\ (call'.op = "analyze"
                 /\ "transformer" \in DOMAIN call'.individual
                 /\ ~call'.individual["transformer"].raised) =>
                    (call'.individual["transformer"].value.fallback
                        <=> (pipeline = "none" \/ call'.fault = "pipeline"))]_vars

\* both loads failed at construction and the transformer has since answered
\* a call from the keyword fallback
C8_Witness ==
    /\ pipeline = "none"
    /\ loads = 2
    /\ TransformerCalled
    /\ ~TransformerOutcome.raised
    /\ TransformerOutcome.value.fallback

(***************************************************************************)
(* C9.  get_statistics depends on its argument only: for no results it     *)
(* returns the empty sentinel; for n > 0 results total_analyzed is n, the  *)
(* fraction of each label is its count over n (the three sum to 1),        *)
(* average_confidence and average_processing_time are the sums over n and  *)
(* total_processing_time is the sum.                                       *)
(***************************************************************************)
StatisticsCall == call.op = "get_statistics"

Stats == call.out.value

\* a[1] + ... + a[n] of a sequence of rationals, from the last term down
RECURSIVE SumSeq(_)
SumSeq(a) ==
    IF a = <<>> THEN Zero
    ELSE RAdd(SumSeq(SubSeq(a, 1, Len(a) - 1)), a[Len(a)])

NumberOf(results, label) ==
    Len(SelectSeq(results, LAMBDA r : r.sentiment = label))

C9_Statistics ==
    StatisticsCall =>
        LET results == call.results
            n == Len(results)
        IN /\ ~call.out.raised
           /\ n = 0 => Stats = [empty |-> TRUE]
           /\ n > 0 =>
                 /\ ~Stats.empty
                 /\ Stats.total_analyzed = n
                 /\ \A l \in Labels :
                       RMul(Stats.sentiment_distribution[l], Rat(n, 1))
                           = Rat(NumberOf(results, l), 1)
                 /\ SumScores(Stats.sentiment_distribution) = One
                 /\ RMul(Stats.average_confidence, Rat(n, 1))
                       = SumSeq([i \in 1..n |-> results[i].confidence])
                 /\ Stats.total_processing_time
                       = SumSeq([i \in 1..n |-> results[i].processing_time])
                 /\ RMul(Stats.average_processing_time, Rat(n, 1))
                       = Stats.total_processing_time

\* statistics of two results with different labels
C9_Witness ==
    /\ StatisticsCall
    /\ Len(call.results) = 2
    /\ call.results[1].sentiment # call.results[2].sentiment
    /\ call.results[1].confidence # call.results[2].confidence
    /\ Stats.total_analyzed = 2

\* statistics of no results
C9_WitnessEmpty == StatisticsCall /\ call.results = <<>> /\ Stats.empty

(***************************************************************************)
(* C10.  Batch, then aggregate: for a batch of n texts of which k failed   *)
(* and were substituted, the statistics of the batch's results report      *)
(* total_analyzed = n, count the k substitutes in the neutral fraction,    *)
(* and average the confidences with the substitutes contributing 0.        *)
(***************************************************************************)
\* the items of the batch whose analyze call raised, and the others
FailedItems == {i \in 1..Len(call.failed) : call.failed[i]}
AnalysedItems == {i \in 1..Len(call.failed) : ~call.failed[i]}

C10_BatchThenAggregate ==
    (StatisticsCall /\ Len(call.results) > 0) =>
        LET n == Len(call.results)
            k == Cardinality(FailedItems)
            neutralAnalysed ==
                Cardinality({i \in AnalysedItems :
                                call.results[i].sentiment = "neutral"})
        IN /\ Stats.total_analyzed = n
           /\ Stats.sentiment_distribution["neutral"]
                 = Rat(k + neutralAnalysed, n)
           /\ Stats.average_confidence
                 = RDiv(SumSet([i \in AnalysedItems |->
                                   call.results[i].confidence],
                               AnalysedItems),
                        Rat(n, 1))

\* a batch of two, one item failed and the other analysed with a label
\* other than neutral: the neutral fraction is the failure's 1/2
C10_Witness ==
    /\ StatisticsCall
    /\ Len(call.results) = 2
    /\ Cardinality(FailedItems) = 1
    /\ \A i \in AnalysedItems : call.results[i].sentiment # "neutral"
    /\ Stats.total_analyzed = 2
    /\ Stats.sentiment_distribution["neutral"] = Rat(1, 2)

(***************************************************************************)
(* The TextPreprocessor (specification SpecPre).                           *)
(***************************************************************************)
\* the stages in the order the specification fixes
StageOrder ==
    <<"markup", "urls", "emails", "punctuation", "casefold", "tokens",
      "whitespace">>

StageEnabled(cfg, stage) ==
    CASE stage = "markup" -> cfg.remove_html
      [] stage = "urls" -> cfg.remove_urls
      [] stage = "emails" -> cfg.remove_emails
      [] stage = "punctuation" -> cfg.remove_special_chars
      [] stage = "casefold" -> cfg.lowercase
      [] stage = "tokens" -> cfg.remove_stopwords \/ cfg.lemmatize \/ cfg.stem
      [] stage = "whitespace" -> TRUE

StageApply(cfg, stage, t) ==
    CASE stage = "markup" -> RemoveHtmlTags(t)
      [] stage = "urls" -> RemoveUrls(t)
      [] stage = "emails" -> RemoveEmails(t)
      [] stage = "punctuation" -> RemoveSpecialCharacters(t)
      [] stage = "casefold" -> LowerStr(t)
      [] stage = "tokens" -> ApplyNltkPreprocessing(cfg, t)
      [] stage = "whitespace" -> Strip(Sub("space", <<" ">>, t, 1, <<>>))

\* the enabled stages of order[i..] applied to t one after the other
RECURSIVE RunInOrder(_, _, _, _)
RunInOrder(cfg, order, i, t) ==
    IF i > Len(order) THEN t
    ELSE RunInOrder(cfg, order, i + 1,
                    IF StageEnabled(cfg, order[i])
                    THEN StageApply(cfg, order[i], t) ELSE t)

PreprocessOfText ==
    call.op = "preprocess" /\ call.text.type = "str" /\ call.text.truthy

\* C11: for every configuration, preprocess returns what its enabled stages
\* yield when applied in the one order markup, URLs, emails, punctuation,
\* case-fold, token stages, whitespace; a disabled stage is skipped and the
\* others keep their order
C11_FixedStageOrder ==
    PreprocessOfText => call.out = RunInOrder(obj, StageOrder, 1, call.text.chars)

\* a configuration with the markup stage off, on a text where the order of
\* the URL and the email stage decides the result
C11_Witness ==
    /\ PreprocessOfText
    /\ call.text = T_UrlMail
    /\ ~obj.remove_html /\ obj.remove_urls /\ obj.remove_emails
    /\ call.out = <<"x">>

\* the default configuration of TextPreprocessor()
DefaultConfig == \E nltk \in BOOLEAN : obj = TPInit(DefaultArgs, nltk)

\* C12: under the default configuration a second pass of preprocess over
\* the output of the first changes nothing
C12_Idempotent ==
    (PreprocessOfText /\ DefaultConfig) =>
        TPPreprocess(obj, Str(call.out)) = call.out

\* C13: for the empty string and for a value that is no string, preprocess
\* and clean_for_analysis return the empty string, under every
\* configuration
C13_EmptyOrNonText ==
    (/\ call.op \in {"preprocess", "clean_for_analysis"}
     /\ (call.text.type # "str" \/ call.text.chars = <<>>))
        => call.out = <<>>

\* preprocess was called with a number, all stages enabled
C13_Witness ==
    /\ call.op = "preprocess"
    /\ call.text = PyInt(TRUE)
    /\ \A toggle \in Toggles : obj[toggle]
    /\ call.out = <<>>

\* C14: the text analyze hands to the adapters is the input with markup,
\* URLs and email addresses stripped and whitespace collapsed, its case,
\* punctuation and emoticons kept
C14_SentimentPreserving ==
    (call.op = "analyze" /\ obj.cls = "TextPreprocessor") =>
        call.handed = TPCleanForAnalysis(call.text)

(***************************************************************************)
(* The lexicon adapters (specification SpecLex).                           *)
(***************************************************************************)
VaderLabelled == obj.cls = "VaderAnalyzer" /\ call.op = "analyze"
TextBlobLabelled == obj.cls = "TextBlobAnalyzer" /\ call.op = "analyze"
Label == call.out.value.sentiment

\* C15: the VADER adapter's label is positive iff compound >= 0.05,
\* negative iff compound <= -0.05 and neutral iff compound lies strictly
\* between; 0.05 itself is positive, -0.05 itself negative
C15_VaderDeadband ==
    VaderLabelled =>
        /\ Label = "positive" <=> RLe(Rat(5, 100), call.library.compound)
        /\ Label = "negative" <=> RLe(call.library.compound, Rat(-5, 100))
        /\ Label = "neutral" <=>
               (/\ RLt(Rat(-5, 100), call.library.compound)
                /\ RLt(call.library.compound, Rat(5, 100)))

\* a compound of exactly 0.05 was labelled positive
C15_Witness ==
    /\ VaderLabelled
    /\ call.library.compound = Rat(5, 100)
    /\ Label = "positive"

\* C16: the TextBlob adapter's label is positive if polarity >= 0.05,
\* negative if polarity <= -0.05, otherwise neutral
C16_TextBlobDeadband ==
    TextBlobLabelled =>
        Label = IF RLe(Rat(5, 100), call.library) THEN "positive"
                ELSE IF RLe(call.library, Rat(-5, 100)) THEN "negative"
                ELSE "neutral"

\* C17: for every polarity in [-1, 1] the neutral component of the
\* TextBlob adapter's scores is strictly positive
C17_NeutralReserved ==
    TextBlobLabelled => RLt(Zero, call.out.value.scores.neutral)

(***************************************************************************)
(* Weights and state of the ensembles (specification Spec).                *)
(***************************************************************************)
AdapterNames == {"vader", "textblob", "transformer"}

\* C18: after construction the weighted names of an EnsembleAnalyzer are
\* exactly its enabled adapters and the weights sum to 1
C18_WeightsNormalised ==
    obj.cls = "EnsembleAnalyzer" =>
        /\ DOMAIN obj.weights = Range(obj.analyzers)
        /\ SumOver([i \in 1..Len(obj.analyzers) |->
                       obj.weights[obj.analyzers[i]]], 1) = One

\* EnsembleAnalyzer(use_..., ..._weight) as an object
EAObject(use, w) ==
    [cls |-> "EnsembleAnalyzer", analyzers |-> EnabledOrder(use),
     weights |-> EAWeights(use, w)]

\* the outcome r of the same call on another ensemble agrees with the
\* latest call in scores and label
SameVerdict(r) ==
    /\ ~r.raised
    /\ r.value.scores = call.out.value.scores
    /\ r.value.sentiment = call.out.value.sentiment

\* the latest call repeated on the ensemble built from use and w with the
\* disabled adapter x enabled at weight 0; a transformer that the object
\* does not have may have loaded its model or not
TwinAgrees(use, w, x) ==
    \A handle \in IF x = "transformer"
                  THEN {InitializeModel(load) : load \in LoadOutcomes}
                  ELSE {pipeline} :
        SameVerdict(EAAnalyze(EAObject([use EXCEPT ![x] = TRUE],
                                       [w EXCEPT ![x] = 0]),
                              call.text, handle, call.fault))

\* C19: an analyze call on an EnsembleAnalyzer with an adapter disabled
\* returns the scores and the label that the ensemble with this adapter
\* enabled at weight 0, and the other arguments unchanged, returns for the
\* same text and adapter outcomes
C19_DisabledEqualsZeroWeight ==
    (obj.cls = "EnsembleAnalyzer" /\ call.op = "analyze"
       /\ Len(obj.analyzers) > 0) =>
        \A use \in [AdapterNames -> BOOLEAN] :
            (EnabledOrder(use) = obj.analyzers) =>
                \A w \in [AdapterNames -> WeightArgs] :
                    (EAObject(use, w) = obj) =>
                        \A x \in AdapterNames :
                            ~use[x] => TwinAgrees(use, w, x)

\* VADER is disabled, the two others carry different weights and disagree
C19_Witness ==
    /\ obj.cls = "EnsembleAnalyzer" /\ call.op = "analyze"
    /\ obj.analyzers = <<"textblob", "transformer">>
    /\ obj.weights["textblob"] = Rat(4, 7)
    /\ ~call.individual["textblob"].raised
    /\ ~call.individual["transformer"].raised
    /\ call.individual["textblob"].value.sentiment
           # call.individual["transformer"].value.sentiment

\* C20: no call changes the configuration the object was constructed with,
\* and what a call returns is determined by this configuration, the model
\* handle and the call's arguments, whatever the calls before it
C20_Stateless ==
    [][obj.cls # "none" =>
          /\ obj' = obj
          /\ (obj.cls = "SentimentAnalyzer" /\ call'.op = "analyze") =>
                 \E elapsed \in Elapsed :
                     call'.out = SAAnalyze(obj, pipeline, call'.text,
                                           call'.fault, elapsed)
          /\ (obj.cls = "EnsembleAnalyzer" /\ call'.op = "analyze") =>
                 call'.out = EAAnalyze(obj, call'.text, pipeline, call'.fault)
          /\ call'.op = "analyze_batch" =>
                 call'.out
                    = Returned(SAAnalyzeBatch(obj, pipeline, call'.inputs))
          /\ call'.op = "get_statistics" =>
                 call'.out = Returned(GetStatistics(call'.results))]_vars

\* statistics were taken of a full batch on an ensemble analyzer that
\* preprocesses, and the analyzer is as constructed
C20_Witness ==
    /\ StatisticsCall
    /\ Len(call.results) = MaxBatch
    /\ obj = [cls |-> "SentimentAnalyzer", method |-> "ensemble",
              preprocess |-> TRUE]

(***************************************************************************)
(* The scrapers' requests (specifications SpecScrape, SpecScrapeFair).     *)
(***************************************************************************)
\* the latest _make_request, and whether it has returned
InRequest == call.op = "_make_request"

RequestDone == InRequest /\ call.pc = "done"

\* the attempts that saw a 200
Successes == {i \in 1..Len(call.seen) : call.seen[i] = "200"}

\* at most retries GETs; a response is returned only for a 200, and it is
\* the first one's; None is returned when every attempt failed
BoundedRetry ==
    InRequest =>
        /\ Len(call.seen) <= obj.retries
        /\ RequestDone =>
              IF Successes = {}
              THEN call.out = NoResponse /\ Len(call.seen) = obj.retries
              ELSE /\ call.out = Response(Len(call.seen))
                   /\ Successes = {Len(call.seen)}

\* C21: _make_request issues at most retries GETs and always terminates;
\* it returns a response only if some attempt got a 200 (the first such),
\* and None when every attempt failed
C21_BoundedRetry == [](BoundedRetry) /\ (InRequest ~> RequestDone)

C21_Witness ==
    /\ RequestDone
    /\ obj.retries = 3
    /\ call.seen = <<"500", "exception", "200">>

\* C22: any two consecutive GETs of one scraper are at least rate_limit
\* seconds apart
C22_RateLimit ==
    Len(env.sent) = 2 => env.sent[2] - env.sent[1] >= obj.rate_limit

(***************************************************************************)
(* The web application (specification SpecApp).                            *)
(***************************************************************************)
\* C23: if save_analysis_result hits an exception, it is swallowed and the
\* analyze request still returns the analysis result unchanged
C23_SaveNeverBlocks ==
    (call.op = "api_analyze" /\ ~call.result.raised /\ call.db = "raises") =>
        /\ call.response.status = 200
        /\ call.response.body = call.result.value

C23_Witness ==
    /\ call.op = "api_analyze"
    /\ call.db = "raises"
    /\ call.response.status = 200
    /\ call.response.body.sentiment = "positive"
    /\ env.rows = 0

(***************************************************************************)
(* The transformer adapter's input cap (specification Spec).               *)
(***************************************************************************)
\* the transformer adapter ran with a model handle on a string
TransformerInference ==
    /\ TransformerCalled
    /\ IsStr(call.handed)
    /\ pipeline \in {"primary", "fallback"}

\* what the model returns for the first 512 characters of text t
CappedScores(t) ==
    ParseResults(PipelineLib(IF TextLen(t) > 512 THEN Prefix512(t) ELSE t))

\* C24: with a model handle, a text longer than 512 characters is cut to
\* its first 512 characters before inference and a text of at most 512
\* is handed on unchanged; an over-long text never makes the call fail
C24_InputCap ==
    TransformerInference =>
        /\ ~TransformerOutcome.raised
        /\ call.fault # "pipeline" =>
              TransformerOutcome.value.scores = CappedScores(call.handed)

C24_Witness ==
    /\ TransformerInference
    /\ call.handed = LongText
    /\ call.fault = "none"
    /\ TransformerOutcome.value.scores = ParseResults(PipelineLib(LongPrefix))
    /\ TransformerOutcome.value.scores # ParseResults(PipelineLib(LongText))

(***************************************************************************)
(* Order of the steps of one ensemble analyze call (specification Spec).   *)
(***************************************************************************)
\* the latest call was analyze on a SentimentAnalyzer with method "ensemble"
SAEnsembleCall ==
    /\ call.op = "analyze"
    /\ obj.cls = "SentimentAnalyzer"
    /\ obj.method = "ensemble"

\* the adapter calls of the latest analyze, in the order they were made
AdapterCalls == SelectSeq(call.trace, LAMBDA e : e.event # "preprocess")

\* C25: within one ensemble analyze call the normalisation completes
\* before any adapter runs, and each adapter is invoked exactly once, in
\* the order vader, textblob, transformer, whether or not an earlier one
\* failed
C25_AdapterOrder ==
    SAEnsembleCall =>
        /\ [i \in 1..Len(AdapterCalls) |-> AdapterCalls[i].event] =
              <<"vader", "textblob", "transformer">>
        /\ \A i \in 1..Len(AdapterCalls) :
              AdapterCalls[i].text = call.handed
        /\ \A i \in 2..Len(call.trace) : call.trace[i].event # "preprocess"
        /\ IF obj.preprocess
           THEN /\ call.trace[1] = Event("preprocess", call.text, FALSE)
                /\ call.handed = Preprocess(call.text)
           ELSE call.handed = call.text

\* VADER raised, and the two later adapters were still called, on the
\* normalised text
C25_Witness ==
    /\ SAEnsembleCall
    /\ obj.preprocess
    /\ call.text = "GOOD"
    /\ Len(call.trace) = 4
    /\ call.trace[2] = Event("vader", "good", TRUE)
    /\ call.trace[4] = Event("transformer", "good", FALSE)

(***************************************************************************)
(* The keyword fallback on every count (specification SpecLex).           *)
(***************************************************************************)
FallbackLabelled == obj.cls = "TransformerAnalyzer" /\ call.op = "analyze"

\* C26: in every keyword-fallback result the returned label has the
\* maximal value in the returned scores
C26_FallbackLabelIsArgMax ==
    FallbackLabelled =>
        \A l \in Labels :
            RLe(call.out.value.scores[l], call.out.value.scores[Label])

(***************************************************************************)
(* Batches on an analyzer with an unknown method (specification Spec).     *)
(***************************************************************************)
\* the latest call was analyze_batch on a SentimentAnalyzer whose method
\* names no adapter and is not "ensemble"
UnknownMethodBatch ==
    /\ call.op = "analyze_batch"
    /\ obj.cls = "SentimentAnalyzer"
    /\ obj.method \notin Methods

\* C27: analyze_batch on an analyzer with an unknown method raises
\* nothing and returns len(texts) placeholders, all neutral with
\* confidence 0.0
C27_UnknownMethodBatch ==
    UnknownMethodBatch =>
        /\ ~call.out.raised
        /\ Len(call.out.value) = Len(call.inputs)
        /\ \A i \in 1..Len(call.out.value) :
              /\ call.out.value[i].sentiment = "neutral"
              /\ call.out.value[i].confidence = Zero

C27_Witness ==
    /\ UnknownMethodBatch
    /\ Len(call.inputs) = 2
    /\ call.inputs[1].text = "GOOD"
    /\ Len(call.out.value) = 2
    /\ IsPlaceholder(call.out.value[1])
    /\ IsPlaceholder(call.out.value[2])

(***************************************************************************)
(* Factory and scraper agree on a URL (specification SpecFactory).         *)
(***************************************************************************)
\* C29: whenever get_scraper_by_url(url) returns a scraper s,
\* s.validate_url(url) is true
C29_FactoryValidates ==
    (call.op = "validate_url" /\ call.url = call.made_for) => call.out

(***************************************************************************)
(* The Amazon review loop (specifications SpecAmazon, SpecAmazonFair).     *)
(***************************************************************************)
InScrape == call.op = "scrape_reviews"

ScrapeDone == InScrape /\ call.pc = "done"

\* the page of the log after which scrape_reviews asks for no other: it
\* was not loaded, held no review, or held fewer than ten
LastPage(o) == o.kind # "reviews" \/ o.n < 10

\* at most ten pages are asked for and none after a last page; at most
\* max_reviews reviews are returned
BoundedScrape ==
    InScrape =>
        /\ Len(call.log) <= 10
        /\ \A i \in 1..(Len(call.log) - 1) : ~LastPage(call.log[i])
        /\ ScrapeDone => call.out <= call.max_reviews

\* C30: scrape_reviews always terminates; for any max_reviews >= 0 and any
\* page responses it returns at most max_reviews reviews after requesting
\* at most 10 review pages, and it stops at the first page that fails to
\* load, yields no reviews, or yields fewer than 10 reviews
C30_BoundedScrape == [](BoundedScrape) /\ (InScrape ~> ScrapeDone)

\* ten full pages were asked for and the list was cut to max_reviews
C30_Witness ==
    /\ ScrapeDone
    /\ Len(call.log) = 10
    /\ call.reviews = 102
    /\ call.max_reviews = 100
    /\ call.out = 100

\* a scrape request that reached the loop over the reviews
ScrapeAnalysed ==
    /\ call.op = "api_scrape"
    /\ GetScraperByUrl(call.url) # "None"
    /\ Len(call.reviews) > 0

\* the reviews of the request on which classification raises
FailingReviews ==
    {i \in 1..Len(call.reviews) : call.reviews[i].fault # "none"}

\* C28: if classification raises for some reviews of a /api/scrape
\* request, those reviews are skipped and the request still succeeds, with
\* statistics.total_analyzed equal to analyzed_reviews
C28_PerReviewIsolation ==
    (ScrapeAnalysed /\ FailingReviews # {}) =>
        /\ call.response.status = 200
        /\ call.response.analyzed_reviews =
              Len(call.reviews) - Cardinality(FailingReviews)
        /\ IF call.response.statistics.empty
           THEN call.response.analyzed_reviews = 0
           ELSE call.response.statistics.total_analyzed =
                   call.response.analyzed_reviews

====
